---------------------------- MODULE Spec2Model ----------------------------
(***************************************************************************)
(* The routing / clock engine of rust-midi-router: engine_loop             *)
(* (midi/engine.rs) with its ClockGenerator (midi/clock.rs), PortManager   *)
(* (midi/port_manager.rs), the pure routing functions (midi/router.rs,     *)
(* types.rs) and the transport codec (midi/transport.rs).                  *)
(*                                                                         *)
(* Bytes are integers 0..255, packets are sequences of bytes.  BPM values  *)
(* (f64 in the source) are integers; instants are integers counting units  *)
(* of 1/240 s, so that the pulse interval 60/bpm/24 s is 600/bpm units.    *)
(***************************************************************************)
EXTENDS Integers, Sequences, FiniteSets, TLC

(***************************************************************************)
(* Bounds of the model.                                                    *)
(***************************************************************************)
\* capacity of event_q in the model (256 in the source)
EventCap == 2
\* capacity of midi_q in the model (1024 in the source)
MidiCap == 2
\* capacity of cmd_q in the model (64 in the source)
CmdCap == 1
\* capacity of error_q in the model (64 in the source)
ErrorCap == 2
\* number of commands the clients submit in one run
MaxCmds == 2
\* number of packets the OS callbacks deliver in one run
MaxPackets == 2

(***************************************************************************)
(* Program constants.                                                      *)
(***************************************************************************)
CLOCK == 248
START == 250
CONTINUE == 251
STOP == 252
PULSES_PER_QUARTER_NOTE == 24
BpmMin == 20
BpmMax == 300
BpmDefault == 120

\* Option<T>: None, or Some(x)
None == <<>>
Some(x) == <<x>>

(***************************************************************************)
(* Byte arithmetic.                                                        *)
(***************************************************************************)
RECURSIVE BitOr(_, _)
\* a | b on non-negative integers
BitOr(a, b) ==
    IF a = 0 THEN b
    ELSE IF b = 0 THEN a
    ELSE (IF (a % 2 = 1) \/ (b % 2 = 1) THEN 1 ELSE 0)
         + 2 * BitOr(a \div 2, b \div 2)

\* a & 0x0F
LowNibble(a) == a % 16

\* a & 0xF0
HighNibble(a) == a - (a % 16)

\* Vec::contains
Contains(s, x) == \E i \in 1..Len(s) : s[i] = x

RECURSIVE Flatten(_)
\* concatenation of a sequence of sequences (Iterator::flat_map ... collect)
Flatten(ss) == IF ss = <<>> THEN <<>> ELSE Head(ss) \o Flatten(Tail(ss))

(***************************************************************************)
(* midi/transport.rs                                                       *)
(***************************************************************************)
\* is_transport_message without the STOP arm
is_transport_message_NoStop(bytes) ==
    IF bytes = <<>> THEN FALSE
    ELSE bytes[1] \in {CLOCK, START, CONTINUE}

is_transport_message(bytes) ==
    IF bytes = <<>> THEN FALSE
    ELSE bytes[1] \in {CLOCK, START, CONTINUE, STOP}

(***************************************************************************)
(* types.rs: ChannelFilter.  A filter is [kind, chans], chans a sequence.  *)
(***************************************************************************)
FilterAll == [kind |-> "All", chans |-> <<>>]
FilterOnly(chans) == [kind |-> "Only", chans |-> chans]
FilterExcept(chans) == [kind |-> "Except", chans |-> chans]

passes(filter, channel) ==
    CASE filter.kind = "All" -> TRUE
      [] filter.kind = "Only" -> Contains(filter.chans, channel)
      [] filter.kind = "Except" -> ~Contains(filter.chans, channel)

(***************************************************************************)
(* midi/router.rs                                                          *)
(***************************************************************************)
\* get_channel_from_bytes taking 0xF0 for a channel status
get_channel_from_bytes_IncludesF0(bytes) ==
    IF bytes = <<>> THEN None
    ELSE IF bytes[1] >= 128 /\ bytes[1] <= 240 THEN Some(LowNibble(bytes[1]))
    ELSE None

get_channel_from_bytes(bytes) ==
    IF bytes = <<>> THEN None
    ELSE IF bytes[1] >= 128 /\ bytes[1] < 240 THEN Some(LowNibble(bytes[1]))
    ELSE None

should_route(bytes, filter) ==
    IF get_channel_from_bytes(bytes) = None THEN TRUE
    ELSE passes(filter, get_channel_from_bytes(bytes)[1])

is_cc_message(bytes) ==
    IF Len(bytes) >= 3 THEN HighNibble(bytes[1]) = 176 ELSE FALSE

\* FindMapping taking the last mapping of the CC number
FindMapping_Last(mappings, cc_num) ==
    IF \E i \in 1..Len(mappings) : mappings[i].source_cc = cc_num
    THEN CHOOSE i \in 1..Len(mappings) :
            /\ mappings[i].source_cc = cc_num
            /\ \A j \in (i + 1)..Len(mappings) : mappings[j].source_cc # cc_num
    ELSE 0

\* route.cc_mappings.iter().find(|m| m.source_cc == cc_num): index or 0
FindMapping(mappings, cc_num) ==
    IF \E i \in 1..Len(mappings) : mappings[i].source_cc = cc_num
    THEN CHOOSE i \in 1..Len(mappings) :
            /\ mappings[i].source_cc = cc_num
            /\ \A j \in 1..(i - 1) : mappings[j].source_cc # cc_num
    ELSE 0

\* the packet one target channel produces
MappedPacket(ch, cc, value) ==
    <<BitOr(176, IF ch > 0 THEN ch - 1 ELSE 0), cc, value>>

\* the packets one target produces, one per channel in order
TargetPackets(target, value) ==
    [k \in 1..Len(target.channels) |->
        MappedPacket(target.channels[k], target.cc, value)]

\* apply_cc_mappings passing an unmapped CC whatever cc_passthrough
apply_cc_mappings_AlwaysPassthrough(bytes, route) ==
    IF ~is_cc_message(bytes) THEN <<bytes>>
    ELSE LET cc_num == bytes[2]
             value == bytes[3]
             m == FindMapping(route.cc_mappings, cc_num)
         IN  IF m # 0
             THEN Flatten([t \in 1..Len(route.cc_mappings[m].targets) |->
                     TargetPackets(route.cc_mappings[m].targets[t], value)])
             ELSE <<bytes>>

apply_cc_mappings(bytes, route) ==
    IF ~is_cc_message(bytes) THEN <<bytes>>
    ELSE LET cc_num == bytes[2]
             value == bytes[3]
             m == FindMapping(route.cc_mappings, cc_num)
         IN  IF m # 0
             THEN Flatten([t \in 1..Len(route.cc_mappings[m].targets) |->
                     TargetPackets(route.cc_mappings[m].targets[t], value)])
             ELSE IF route.cc_passthrough THEN <<bytes>>
             ELSE <<>>

\* parse_midi_message yields an activity (TRUE) or nothing (FALSE): the
\* four single real-time bytes always do; otherwise
\* wmidi::MidiMessage::try_from decides, which wants a status byte first,
\* as many bytes as the status calls for, and data bytes below 0x80
parse_midi_message(bytes) ==
    IF Len(bytes) = 1 /\ bytes[1] \in {CLOCK, START, CONTINUE, STOP} THEN TRUE
    ELSE IF bytes = <<>> THEN FALSE
    ELSE LET status == bytes[1]
             need == CASE status < 128 -> 0
                       [] HighNibble(status) \in {192, 208} -> 2
                       [] status < 240 -> 3
                       [] OTHER -> 1
         IN  /\ need # 0
             /\ Len(bytes) >= need
             /\ \A i \in 2..need : bytes[i] < 128


(***************************************************************************)
(* midi/clock.rs: ClockGenerator.  A clock is [bpm, running, last_tick].   *)
(* last_tick is None or Some(e), e the time elapsed, at the latest reading *)
(* of Instant::now(), since the instant the source stores in last_tick.    *)
(***************************************************************************)
\* clamp without the lower bound
clamp_NoLowerBound(x) == IF x > BpmMax THEN BpmMax ELSE x

\* f64::clamp(20.0, 300.0)
clamp(x) == IF x < BpmMin THEN BpmMin ELSE IF x > BpmMax THEN BpmMax ELSE x

\* a clock that is created running
ClockGenerator_new_Running(x) == [bpm |-> clamp(x), running |-> TRUE, last_tick |-> None]

\* ClockGenerator::new
ClockGenerator_new(x) == [bpm |-> clamp(x), running |-> FALSE, last_tick |-> None]

set_bpm(clk, x) == [clk EXCEPT !.bpm = clamp(x)]

start(clk) == [clk EXCEPT !.running = TRUE, !.last_tick = None]

\* continue_playback that forgets the schedule as start does
continue_playback_ClearsLastTick(clk) ==
    [clk EXCEPT !.running = TRUE, !.last_tick = None]

continue_playback(clk) == [clk EXCEPT !.running = TRUE]

stop(clk) == [clk EXCEPT !.running = FALSE]

\* 60 s / bpm / 24, in units of 1/240 s
clock_interval(clk) == (60 * 240) \div (clk.bpm * PULSES_PER_QUARTER_NOTE)

\* should_tick that stores now at every tick
should_tick_StoresNow(clk, d) ==
    IF ~clk.running THEN [tick |-> FALSE, clock |-> clk]
    ELSE LET interval == clock_interval(clk)
             elapsed == IF clk.last_tick = None THEN 0 ELSE clk.last_tick[1] + d
             tick == IF clk.last_tick = None THEN TRUE ELSE elapsed >= interval
         IN  IF tick
             THEN [tick |-> TRUE, clock |-> [clk EXCEPT !.last_tick = Some(0)]]
             ELSE [tick |-> FALSE,
                   clock |-> [clk EXCEPT !.last_tick = Some(elapsed)]]

\* should_tick that resynchronises as soon as it is one interval behind
should_tick_ResyncAtOne(clk, d) ==
    IF ~clk.running THEN [tick |-> FALSE, clock |-> clk]
    ELSE LET interval == clock_interval(clk)
             elapsed == IF clk.last_tick = None THEN 0 ELSE clk.last_tick[1] + d
             tick == IF clk.last_tick = None THEN TRUE ELSE elapsed >= interval
         IN  IF tick
             THEN [tick |-> TRUE,
                   clock |-> [clk EXCEPT !.last_tick =
                       IF clk.last_tick = None THEN Some(0)
                       ELSE IF elapsed - interval >= interval THEN Some(0)
                       ELSE Some(elapsed - interval)]]
             ELSE [tick |-> FALSE,
                   clock |-> [clk EXCEPT !.last_tick = Some(elapsed)]]

\* should_tick that never resynchronises
should_tick_NoResync(clk, d) ==
    IF ~clk.running THEN [tick |-> FALSE, clock |-> clk]
    ELSE LET interval == clock_interval(clk)
             elapsed == IF clk.last_tick = None THEN 0 ELSE clk.last_tick[1] + d
             tick == IF clk.last_tick = None THEN TRUE ELSE elapsed >= interval
         IN  IF tick
             THEN [tick |-> TRUE,
                   clock |-> [clk EXCEPT !.last_tick =
                       IF clk.last_tick = None THEN Some(0)
                       ELSE Some(elapsed - interval)]]
             ELSE [tick |-> FALSE,
                   clock |-> [clk EXCEPT !.last_tick = Some(elapsed)]]

\* should_tick without the test of running
should_tick_IgnoresRunning(clk, d) ==
    LET interval == clock_interval(clk)
        elapsed == IF clk.last_tick = None THEN 0 ELSE clk.last_tick[1] + d
        tick == IF clk.last_tick = None THEN TRUE ELSE elapsed >= interval
    IN  IF tick
        THEN [tick |-> TRUE,
              clock |-> [clk EXCEPT !.last_tick =
                  IF clk.last_tick = None THEN Some(0)
                  ELSE IF elapsed - interval > interval THEN Some(0)
                  ELSE Some(elapsed - interval)]]
        ELSE [tick |-> FALSE,
              clock |-> [clk EXCEPT !.last_tick = Some(elapsed)]]

\* should_tick when d units have passed since the latest reading of the
\* time: [tick, clock]
should_tick(clk, d) ==
    IF ~clk.running THEN [tick |-> FALSE, clock |-> clk]
    ELSE LET interval == clock_interval(clk)
             elapsed == IF clk.last_tick = None THEN 0 ELSE clk.last_tick[1] + d
             tick == IF clk.last_tick = None THEN TRUE ELSE elapsed >= interval
         IN  IF tick
             THEN [tick |-> TRUE,
                   clock |-> [clk EXCEPT !.last_tick =
                       IF clk.last_tick = None THEN Some(0)
                       ELSE IF elapsed - interval > interval THEN Some(0)
                       ELSE Some(elapsed - interval)]]
             ELSE [tick |-> FALSE,
                   clock |-> [clk EXCEPT !.last_tick = Some(elapsed)]]

ClockState(clk) ==
    [type |-> "ClockStateChanged", bpm |-> clk.bpm, running |-> clk.running]

(***************************************************************************)
(* The host's MIDI ports (the OS enumeration, midi/ports.rs).              *)
(***************************************************************************)
OsInputs == {"A"}
OsOutputs == {"B", "C"}

PortsChanged ==
    [type |-> "PortsChanged", inputs |-> OsInputs, outputs |-> OsOutputs]

(***************************************************************************)
(* midi/port_manager.rs                                                    *)
(***************************************************************************)
\* the orders in which a HashSet or HashMap may be iterated
Orders(S) ==
    {s \in [1..Cardinality(S) -> S] :
        \A i, j \in 1..Cardinality(S) : i # j => s[i] # s[j]}

PortConnectionFailed(name) ==
    [type |-> "Error", kind |-> "PortConnectionFailed", port_name |-> name]

needed_input_ports(rs) ==
    {rs[i].source : i \in {k \in 1..Len(rs) : rs[k].enabled}}

\* needed_output_ports without the filter on enabled
needed_output_ports_IgnoresEnabled(rs) ==
    {rs[i].destination : i \in 1..Len(rs)}

needed_output_ports(rs) ==
    {rs[i].destination : i \in {k \in 1..Len(rs) : rs[k].enabled}}

RECURSIVE ConnectEach_ReportsAbsent(_, _, _, _, _)
\* ConnectEach sending PortConnectionFailed for a port the OS does not list
ConnectEach_ReportsAbsent(order, os, failed, conns, errs) ==
    IF order = <<>> THEN [conns |-> conns, errs |-> errs, blocked |-> FALSE]
    ELSE LET name == Head(order)
         IN  IF name \in conns
             THEN ConnectEach_ReportsAbsent(Tail(order), os, failed, conns,
                                            errs)
             ELSE IF name \in failed \/ name \notin os
             THEN IF Len(errs) >= ErrorCap
                  THEN [conns |-> conns, errs |-> errs, blocked |-> TRUE]
                  ELSE ConnectEach_ReportsAbsent(
                           Tail(order), os, failed, conns,
                           Append(errs, PortConnectionFailed(name)))
             ELSE ConnectEach_ReportsAbsent(Tail(order), os, failed,
                                            conns \cup {name}, errs)

RECURSIVE ConnectEach(_, _, _, _, _)
\* the loop of sync_inputs / sync_outputs over the needed ports in iteration
\* order, with connect_input / connect_output inlined: a port already
\* connected is left alone, a port in failed has MidiInput::new or connect
\* fail (an error is sent on error_tx, which blocks for good when error_q
\* is full), a port the OS does not list is skipped, any other is opened.
ConnectEach(order, os, failed, conns, errs) ==
    IF order = <<>> THEN [conns |-> conns, errs |-> errs, blocked |-> FALSE]
    ELSE LET name == Head(order)
         IN  IF name \in conns
             THEN ConnectEach(Tail(order), os, failed, conns, errs)
             ELSE IF name \in failed
             THEN IF Len(errs) >= ErrorCap
                  THEN [conns |-> conns, errs |-> errs, blocked |-> TRUE]
                  ELSE ConnectEach(Tail(order), os, failed, conns,
                                   Append(errs, PortConnectionFailed(name)))
             ELSE IF name \notin os
             THEN ConnectEach(Tail(order), os, failed, conns, errs)
             ELSE ConnectEach(Tail(order), os, failed, conns \cup {name}, errs)

\* sync_inputs that drops every connection and opens each needed port anew
sync_inputs_ReopensAll(conns, order, failed, errs) ==
    ConnectEach(order, OsInputs, failed, {}, errs)

\* retain, then connect what is missing
sync_inputs(conns, order, failed, errs) ==
    ConnectEach(order, OsInputs, failed,
                {n \in conns : Contains(order, n)}, errs)

sync_outputs(conns, order, failed, errs) ==
    ConnectEach(order, OsOutputs, failed,
                {n \in conns : Contains(order, n)}, errs)

\* sync_with_routes: [inputs, outputs, errs, blocked]
sync_with_routes(ins, outs, errs, in_order, out_order, failed_in, failed_out) ==
    LET i == sync_inputs(ins, in_order, failed_in, errs)
        o == sync_outputs(outs, out_order, failed_out, i.errs)
    IN  IF i.blocked
        THEN [inputs |-> i.conns, outputs |-> outs, errs |-> i.errs,
              blocked |-> TRUE]
        ELSE [inputs |-> i.conns, outputs |-> o.conns, errs |-> o.errs,
              blocked |-> o.blocked]

\* one call of send_to: the call, whether it returned Ok and, if not, the
\* reason of the SendFailed it returned; broken are the open outputs whose
\* conn.send fails (the host's choice)
send_to(outs, broken, output_name, bytes) ==
    [call |-> "send_to", port |-> output_name, bytes |-> bytes,
     ok |-> output_name \in outs /\ output_name \notin broken,
     reason |-> IF output_name \notin outs THEN "Port not connected"
                ELSE IF output_name \in broken THEN "send error"
                ELSE ""]

\* send_to_all over the open outputs in iteration order
send_to_all(order, bytes) ==
    [k \in 1..Len(order) |->
        [call |-> "send_to_all", port |-> order[k], bytes |-> bytes,
         ok |-> TRUE]]

(***************************************************************************)
(* midi/engine.rs: the per-route dispatch of one packet.                   *)
(***************************************************************************)
\* the prefix of a sequence of calls up to its first failed call
UpToFirstFailure(calls) ==
    IF \E k \in 1..Len(calls) : ~calls[k].ok
    THEN SubSeq(calls, 1,
                CHOOSE k \in 1..Len(calls) :
                   ~calls[k].ok /\ \A j \in 1..(k - 1) : calls[j].ok)
    ELSE calls

\* SendEach leaving the inner loop at the first send_to that fails
SendEach_StopsAtFailure(outs, broken, route, msgs) ==
    UpToFirstFailure(
        [k \in 1..Len(msgs) |->
            send_to(outs, broken, route.destination, msgs[k])])

\* the inner loop: one send_to per produced message
SendEach(outs, broken, route, msgs) ==
    [k \in 1..Len(msgs) |->
        send_to(outs, broken, route.destination, msgs[k])]

\* RouteMatches without the test of route.enabled
RouteMatches_IgnoresEnabled(route, port_name, bytes) ==
    /\ route.source = port_name
    /\ should_route(bytes, route.channels)

RouteMatches(route, port_name, bytes) ==
    /\ route.enabled
    /\ route.source = port_name
    /\ should_route(bytes, route.channels)

RECURSIVE Dispatch(_, _, _, _, _)
\* for route in routes_guard.iter() { ... }
Dispatch(rs, outs, broken, port_name, bytes) ==
    IF rs = <<>> THEN <<>>
    ELSE (IF RouteMatches(Head(rs), port_name, bytes)
          THEN SendEach(outs, broken, Head(rs),
                        apply_cc_mappings(bytes, Head(rs)))
          ELSE <<>>)
         \o Dispatch(Tail(rs), outs, broken, port_name, bytes)


(***************************************************************************)
(* midi/engine.rs: what engine_loop does with the clock for one inbound    *)
(* packet (the match on bytes[0]) and for the clock commands.  Each gives  *)
(* the new clock, the events published and the byte broadcast (or None).   *)
(***************************************************************************)
\* on_transport forwarding the byte only when the running flag changed
on_transport_ForwardOnChange(clk, bytes) ==
    IF bytes = <<>> THEN [clock |-> clk, events |-> <<>>, forward |-> None]
    ELSE CASE bytes[1] = START /\ ~clk.running ->
                [clock |-> start(clk),
                 events |-> <<ClockState(start(clk))>>,
                 forward |-> Some(START)]
           [] bytes[1] = CONTINUE /\ ~clk.running ->
                [clock |-> continue_playback(clk),
                 events |-> <<ClockState(continue_playback(clk))>>,
                 forward |-> Some(CONTINUE)]
           [] bytes[1] = STOP /\ clk.running ->
                [clock |-> stop(clk),
                 events |-> <<ClockState(stop(clk))>>,
                 forward |-> Some(STOP)]
           [] OTHER -> [clock |-> clk, events |-> <<>>, forward |-> None]

\* on_transport publishing the clock state whether or not it changed
on_transport_AlwaysPublish(clk, bytes) ==
    IF bytes = <<>> THEN [clock |-> clk, events |-> <<>>, forward |-> None]
    ELSE CASE bytes[1] = START ->
                [clock |-> IF clk.running THEN clk ELSE start(clk),
                 events |-> <<ClockState(start(clk))>>,
                 forward |-> Some(START)]
           [] bytes[1] = CONTINUE ->
                [clock |-> continue_playback(clk),
                 events |-> <<ClockState(continue_playback(clk))>>,
                 forward |-> Some(CONTINUE)]
           [] bytes[1] = STOP ->
                [clock |-> stop(clk),
                 events |-> <<ClockState(stop(clk))>>,
                 forward |-> Some(STOP)]
           [] OTHER -> [clock |-> clk, events |-> <<>>, forward |-> None]

\* on_transport calling clock.start() on every Start, running or not
on_transport_StartAlwaysResets(clk, bytes) ==
    IF bytes = <<>> THEN [clock |-> clk, events |-> <<>>, forward |-> None]
    ELSE CASE bytes[1] = START ->
                [clock |-> start(clk),
                 events |-> IF clk.running THEN <<>>
                            ELSE <<ClockState(start(clk))>>,
                 forward |-> Some(START)]
           [] bytes[1] = CONTINUE ->
                [clock |-> continue_playback(clk),
                 events |-> IF clk.running THEN <<>>
                            ELSE <<ClockState(continue_playback(clk))>>,
                 forward |-> Some(CONTINUE)]
           [] bytes[1] = STOP ->
                [clock |-> stop(clk),
                 events |-> IF clk.running THEN <<ClockState(stop(clk))>>
                            ELSE <<>>,
                 forward |-> Some(STOP)]
           [] OTHER -> [clock |-> clk, events |-> <<>>, forward |-> None]

on_transport(clk, bytes) ==
    IF bytes = <<>> THEN [clock |-> clk, events |-> <<>>, forward |-> None]
    ELSE CASE bytes[1] = START ->
                IF ~clk.running
                THEN [clock |-> start(clk),
                      events |-> <<ClockState(start(clk))>>,
                      forward |-> Some(START)]
                ELSE [clock |-> clk, events |-> <<>>, forward |-> Some(START)]
           [] bytes[1] = CONTINUE ->
                IF ~clk.running
                THEN [clock |-> continue_playback(clk),
                      events |-> <<ClockState(continue_playback(clk))>>,
                      forward |-> Some(CONTINUE)]
                ELSE [clock |-> clk, events |-> <<>>,
                      forward |-> Some(CONTINUE)]
           [] bytes[1] = STOP ->
                IF clk.running
                THEN [clock |-> stop(clk),
                      events |-> <<ClockState(stop(clk))>>,
                      forward |-> Some(STOP)]
                ELSE [clock |-> clk, events |-> <<>>, forward |-> Some(STOP)]
           [] OTHER -> [clock |-> clk, events |-> <<>>, forward |-> None]

\* on_SetBpm publishing only when the stored bpm changes
on_SetBpm_PublishOnChange(clk, x) ==
    [clock |-> set_bpm(clk, x),
     events |-> IF set_bpm(clk, x).bpm = clk.bpm THEN <<>>
                ELSE <<ClockState(set_bpm(clk, x))>>,
     forward |-> None]

on_SetBpm(clk, x) ==
    [clock |-> set_bpm(clk, x),
     events |-> <<ClockState(set_bpm(clk, x))>>,
     forward |-> None]

\* on_SendStart keeping the schedule (continue_playback instead of start)
on_SendStart_KeepsSchedule(clk) ==
    [clock |-> continue_playback(clk),
     events |-> <<ClockState(continue_playback(clk))>>,
     forward |-> Some(START)]

on_SendStart(clk) ==
    [clock |-> start(clk),
     events |-> <<ClockState(start(clk))>>,
     forward |-> Some(START)]

on_SendStop(clk) ==
    [clock |-> stop(clk),
     events |-> <<ClockState(stop(clk))>>,
     forward |-> Some(STOP)]

(***************************************************************************)
(* The inputs of the model: routes, packets, commands, elapsed times.      *)
(***************************************************************************)
Route(src, dst, en, ch, pass, maps) ==
    [source |-> src, destination |-> dst, enabled |-> en, channels |-> ch,
     cc_passthrough |-> pass, cc_mappings |-> maps]

CcTarget(cc, chans) == [cc |-> cc, channels |-> chans]
CcMapping(src, targets) == [source_cc |-> src, targets |-> targets]

\* Route::new("A", "B")
RoutePlain == Route("A", "B", TRUE, FilterAll, TRUE, <<>>)
\* two mappings of CC 1, no passthrough, channels 0 and 5 only
RouteMapped ==
    Route("A", "B", TRUE, FilterOnly(<<0, 5>>), FALSE,
          <<CcMapping(1, <<CcTarget(74, <<1, 2>>)>>),
            CcMapping(1, <<CcTarget(71, <<2>>)>>)>>)
RouteDisabled == Route("A", "C", FALSE, FilterAll, TRUE, <<>>)
RouteExcept ==
    Route("A", "C", TRUE, FilterExcept(<<5>>), TRUE,
          <<CcMapping(7, <<CcTarget(10, <<0>>), CcTarget(11, <<16>>)>>)>>)
\* ports the host does not list
RouteAbsent == Route("X", "Y", TRUE, FilterAll, TRUE, <<>>)

RouteSets ==
    { <<>>,
      <<RouteMapped, RouteDisabled>>,
      <<RoutePlain, RouteExcept, RouteAbsent>>,
      <<RouteAbsent>> }

Packets ==
    { <<144, 60, 100>>, <<181, 1, 64>>, <<176, 7, 10>>,
      <<CLOCK>>, <<START>>, <<CONTINUE>>, <<STOP>>, <<START, 0>>, <<>> }

BpmInputs == {10, 90, 500}

Commands ==
    {[type |-> "RefreshPorts", done_tx |-> None], [type |-> "SendStart"],
     [type |-> "SendStop"], [type |-> "Shutdown"]}
    \cup {[type |-> "SetRoutes", routes |-> rs] : rs \in RouteSets}
    \cup {[type |-> "SetBpm", bpm |-> x] : x \in BpmInputs}

\* the time that can pass between two readings of the clock, in 1/240 s
Elapsed == {0, 5, 61}


(***************************************************************************)
(* The state of engine_loop and of the threads around it.                  *)
(***************************************************************************)
VARIABLES
    pc,                 \* where the engine thread is in engine_loop
    routes,             \* the route set (Vec<Route>)
    clock,              \* the ClockGenerator
    input_connections,  \* PortManager: names of the open inputs
    output_connections, \* PortManager: names of the open outputs
    midi_q,             \* bounded channel callbacks -> engine: [port, bytes]
    cmd_q,              \* bounded channel clients -> engine
    event_q,            \* bounded channel engine -> subscribers
    error_q,            \* bounded channel PortManager -> engine
    cur,                \* the packet being dispatched, None between packets
    cmd,                \* the command being processed, None between commands
    n_cmds,             \* commands submitted so far
    n_pkts,             \* packets delivered by callbacks so far
    last,               \* the latest step: what the engine did in it
    dequeued,           \* the routes and the clock when cur was dequeued
    start_pending,      \* SendStart was processed, should_tick not yet called
    set_bpm_run,        \* the latest SetBpm commands (two at most) processed
                        \* with no other command or running change between
    halted,             \* a Stop was processed and no Start or Continue since
    after_empty,        \* the latest command processed was SetRoutes([])
    synced,             \* the latest command was a SetRoutes after an empty one
    sync_call,          \* the latest refresh_ports_sync call: its done
                        \* channel and its result, "waiting" until it returns
    announced,          \* the done channels of the RefreshPorts commands
                        \* whose PortsChanged has been published
    n_ports_changed,    \* PortsChanged events published so far
    n_refreshed,        \* RefreshPorts commands processed so far
    stale,              \* the open connections whose device has gone from
                        \* the host since they were opened
    app_routes,         \* AppState.routes, the front end's route list
    get_ports_call      \* the get_ports call in flight: None, or Some of
                        \* its local `routes`, None until it is cloned

vars ==
    <<pc, routes, clock, input_connections, output_connections, midi_q,
      cmd_q, event_q, error_q, cur, cmd, n_cmds, n_pkts, last,
      dequeued, start_pending, set_bpm_run, halted, after_empty, synced,
      sync_call, announced, n_ports_changed, n_refreshed, stale,
      app_routes, get_ports_call>>

\* a step of the engine: its name, the packet or command it handled, the
\* clock before it (for the steps that go through a clock handler; for
\* Activity the clock when the packet was dequeued), the send_to and
\* send_to_all calls it made and the events it published
Step(name, arg, before, sent, published) ==
    [step |-> name, arg |-> arg, before |-> before, sent |-> sent,
     published |-> published]

\* a step of another thread
EnvStep == Step("env", None, None, <<>>, <<>>)

\* engine_loop up to the first iteration: no port open, no route, the clock
\* stopped at 120 BPM, PortsChanged and ClockStateChanged published
Init ==
    /\ pc = "loop"
    /\ routes = <<>>
    /\ clock = ClockGenerator_new(BpmDefault)
    /\ input_connections = {}
    /\ output_connections = {}
    /\ midi_q = <<>>
    /\ cmd_q = <<>>
    /\ event_q = <<PortsChanged, ClockState(ClockGenerator_new(BpmDefault))>>
    /\ error_q = <<>>
    /\ cur = None
    /\ cmd = None
    /\ n_cmds = 0
    /\ n_pkts = 0
    /\ last = EnvStep
    /\ dequeued = None
    /\ start_pending = FALSE
    /\ set_bpm_run = <<>>
    /\ halted = FALSE
    /\ after_empty = FALSE
    /\ synced = None
    /\ sync_call = None
    /\ announced = {}
    /\ n_ports_changed = 1
    /\ n_refreshed = 0
    /\ stale = {}
    /\ app_routes = <<>>
    /\ get_ports_call = None

\* event_tx.send blocks while event_q is full
CanPublish(n) == Len(event_q) + n <= EventCap

hist == <<dequeued, start_pending, set_bpm_run, halted, after_empty, synced>>
ports == <<input_connections, output_connections>>
counters == <<n_cmds, n_pkts>>
refresh_sync == <<sync_call, announced, n_refreshed>>
front_end == <<app_routes, get_ports_call>>

\* the PortsChanged events among the events a step published
RECURSIVE CountPortsChanged(_)
CountPortsChanged(events) ==
    IF events = <<>> THEN 0
    ELSE (IF Head(events).type = "PortsChanged" THEN 1 ELSE 0)
         + CountPortsChanged(Tail(events))


(***************************************************************************)
(* The threads around the engine.                                          *)
(***************************************************************************)
\* the callback of an open input: tx.send((name, timestamp, bytes))
Callback(port, bytes) ==
    /\ port \in input_connections
    /\ n_pkts < MaxPackets
    /\ Len(midi_q) < MidiCap
    /\ midi_q' = Append(midi_q, [port |-> port, bytes |-> bytes])
    /\ n_pkts' = n_pkts + 1
    /\ last' = EnvStep
    /\ UNCHANGED <<pc, routes, clock, ports, cmd_q, event_q, error_q, cur,
                   cmd, n_cmds, hist,
                   refresh_sync, n_ports_changed, stale, front_end>>

\* MidiEngine::send_command: cmd_tx.send(cmd)
Submit(c) ==
    /\ pc # "done"
    /\ n_cmds < MaxCmds
    /\ Len(cmd_q) < CmdCap
    /\ cmd_q' = Append(cmd_q, c)
    /\ n_cmds' = n_cmds + 1
    /\ last' = EnvStep
    /\ UNCHANGED <<pc, routes, clock, ports, midi_q, event_q, error_q, cur,
                   cmd, n_pkts, hist,
                   refresh_sync, n_ports_changed, stale, front_end>>

\* a subscriber takes the next event (event_rx.recv)
ConsumeEvent ==
    /\ event_q # <<>>
    /\ event_q' = Tail(event_q)
    /\ last' = EnvStep
    /\ UNCHANGED <<pc, routes, clock, ports, midi_q, cmd_q, error_q, cur,
                   cmd, counters, hist,
                   refresh_sync, n_ports_changed, stale, front_end>>

\* MidiEngine::refresh_ports_sync: a done channel of capacity 1,
\* send_command(RefreshPorts { done_tx: Some(..) }), then the caller waits
\* in done_rx.recv_timeout(5 s); one caller at a time
RefreshPortsSync ==
    /\ pc # "done"
    /\ n_cmds < MaxCmds
    /\ Len(cmd_q) < CmdCap
    /\ \A i \in DOMAIN sync_call : sync_call[i].result # "waiting"
    /\ cmd_q' = Append(cmd_q, [type |-> "RefreshPorts",
                               done_tx |-> Some(n_cmds + 1)])
    /\ n_cmds' = n_cmds + 1
    /\ sync_call' = Some([done |-> n_cmds + 1, result |-> "waiting"])
    /\ last' = EnvStep
    /\ UNCHANGED <<pc, routes, clock, ports, midi_q, event_q, error_q, cur,
                   cmd, n_pkts, hist, announced, n_refreshed,
                   n_ports_changed, stale, front_end>>

\* done_rx.recv_timeout(5 s) => Err: "Timeout waiting for port refresh"
RefreshSyncTimeout ==
    /\ sync_call # None
    /\ sync_call[1].result = "waiting"
    /\ sync_call' = Some([sync_call[1] EXCEPT !.result = "Err"])
    /\ last' = EnvStep
    /\ UNCHANGED <<pc, routes, clock, ports, midi_q, cmd_q, event_q, error_q,
                   cur, cmd, counters, hist, announced, n_refreshed,
                   n_ports_changed, stale, front_end>>

\* if let Some(tx) = done_tx { let _ = tx.send(()); }: the call that waits
\* on this channel returns Ok; a call that timed out has dropped done_rx
fire_done(call, done_tx) ==
    IF /\ done_tx # None
       /\ call # None
       /\ call[1].done = done_tx[1]
       /\ call[1].result = "waiting"
    THEN Some([call[1] EXCEPT !.result = "Ok"])
    ELSE call

(***************************************************************************)
(* engine_loop, one action per stretch between two points where the        *)
(* thread can wait (a send on a full channel, a receive).                  *)
(***************************************************************************)
\* while let Ok(error) = error_rx.try_recv() { event_tx.send(Error(error)) }
DrainError ==
    /\ pc = "loop"
    /\ error_q # <<>>
    /\ CanPublish(1)
    /\ event_q' = Append(event_q, Head(error_q))
    /\ error_q' = Tail(error_q)
    /\ last' = Step("DrainError", None, None, <<>>, <<Head(error_q)>>)
    /\ UNCHANGED <<pc, routes, clock, ports, midi_q, cmd_q, cur, cmd,
                   counters, hist,
                   refresh_sync, stale, front_end>>
    /\ n_ports_changed' = n_ports_changed + CountPortsChanged(last'.published)

\* if clock.should_tick() { port_manager.send_to_all([0xF8]) }
ClockTick(d, order) ==
    /\ pc = "loop"
    /\ error_q = <<>>
    /\ clock' = should_tick(clock, d).clock
    /\ last' = Step("ClockTick", Some(start_pending), None,
                    IF should_tick(clock, d).tick
                    THEN send_to_all(order, <<CLOCK>>) ELSE <<>>,
                    <<>>)
    /\ pc' = "midi"
    /\ start_pending' = FALSE
    /\ UNCHANGED <<routes, ports, midi_q, cmd_q, event_q, error_q, cur, cmd,
                   counters, dequeued, set_bpm_run, after_empty,
                   synced,
                   halted,
                   refresh_sync, stale, front_end>>
    /\ n_ports_changed' = n_ports_changed + CountPortsChanged(last'.published)

\* a MidiRecv that takes the packet pushed last
MidiRecv_NewestFirst ==
    /\ pc = "midi"
    /\ midi_q # <<>>
    /\ cur' = Some(midi_q[Len(midi_q)])
    /\ midi_q' = SubSeq(midi_q, 1, Len(midi_q) - 1)
    /\ pc' = IF on_transport(clock, midi_q[Len(midi_q)].bytes).forward # None
             THEN "transport" ELSE "activity"
    /\ last' = Step("MidiRecv", Some(midi_q[Len(midi_q)]), None, <<>>, <<>>)
    /\ dequeued' = Some([routes |-> routes, clock |-> clock])
    /\ UNCHANGED <<routes, clock, ports, cmd_q, event_q, error_q, cmd,
                   counters, start_pending, set_bpm_run, after_empty,
                   synced, halted, refresh_sync, n_ports_changed, stale, front_end>>

\* while let Ok((port_name, timestamp, bytes)) = midi_rx.try_recv()
MidiRecv ==
    /\ pc = "midi"
    /\ midi_q # <<>>
    /\ cur' = Some(Head(midi_q))
    /\ midi_q' = Tail(midi_q)
    /\ pc' = IF on_transport(clock, Head(midi_q).bytes).forward # None
             THEN "transport" ELSE "activity"
    /\ last' = Step("MidiRecv", Some(Head(midi_q)), None, <<>>, <<>>)
    /\ dequeued' = Some([routes |-> routes, clock |-> clock])
    /\ UNCHANGED <<routes, clock, ports, cmd_q, event_q, error_q, cmd,
                   counters, start_pending, set_bpm_run, after_empty,
                   synced,
                   halted,
                   refresh_sync, stale, front_end>>
    /\ n_ports_changed' = n_ports_changed + CountPortsChanged(last'.published)

\* match bytes[0] { START | CONTINUE | STOP => ... }
Transport(order) ==
    /\ pc = "transport"
    /\ LET r == on_transport(clock, cur[1].bytes)
       IN  /\ CanPublish(Len(r.events))
           /\ clock' = r.clock
           /\ event_q' = event_q \o r.events
           /\ last' = Step("Transport", cur, Some(clock),
                           send_to_all(order, r.forward), r.events)
           /\ set_bpm_run' = IF r.events # <<>> THEN <<>> ELSE set_bpm_run
           /\ halted' = (cur[1].bytes[1] = STOP)
    /\ pc' = "activity"
    /\ UNCHANGED <<routes, ports, midi_q, cmd_q, error_q, cur, cmd, counters,
                   dequeued, start_pending, after_empty, synced,
                   refresh_sync, stale, front_end>>
    /\ n_ports_changed' = n_ports_changed + CountPortsChanged(last'.published)

MidiActivity(p) == [type |-> "MidiActivity", port |-> p.port, raw |-> p.bytes]

\* if let Some(activity) = parse_midi_message(..) { event_tx.send(..) }
\* if is_transport_message(&bytes) { continue; }
Activity ==
    /\ pc = "activity"
    /\ IF parse_midi_message(cur[1].bytes)
       THEN /\ CanPublish(1)
            /\ event_q' = Append(event_q, MidiActivity(cur[1]))
            /\ last' = Step("Activity", cur, Some(dequeued[1].clock), <<>>,
                            <<MidiActivity(cur[1])>>)
       ELSE /\ event_q' = event_q
            /\ last' = Step("Activity", cur, Some(dequeued[1].clock), <<>>,
                            <<>>)
    /\ IF is_transport_message(cur[1].bytes)
       THEN pc' = "midi" /\ cur' = None /\ dequeued' = None
       ELSE pc' = "route" /\ cur' = cur /\ dequeued' = dequeued
    /\ UNCHANGED <<routes, clock, ports, midi_q, cmd_q, error_q, cmd,
                   counters, start_pending, set_bpm_run, after_empty,
                   synced,
                   halted,
                   refresh_sync, stale, front_end>>
    /\ n_ports_changed' = n_ports_changed + CountPortsChanged(last'.published)

\* for route in routes_guard.iter() { ... send_to ... }
RoutePacket ==
    /\ pc = "route"
    /\ \E broken \in SUBSET output_connections :
          last' = Step("RoutePacket",
                       Some([port |-> cur[1].port, bytes |-> cur[1].bytes,
                             routes |-> dequeued[1].routes,
                             broken |-> broken]),
                       None,
                       Dispatch(routes, output_connections, broken,
                                cur[1].port, cur[1].bytes),
                       <<>>)
    /\ pc' = "midi"
    /\ cur' = None
    /\ dequeued' = None
    /\ UNCHANGED <<routes, clock, ports, midi_q, cmd_q, event_q, error_q, cmd,
                   counters, start_pending, set_bpm_run, after_empty,
                   synced,
                   halted,
                   refresh_sync, stale, front_end>>
    /\ n_ports_changed' = n_ports_changed + CountPortsChanged(last'.published)

\* cmd_rx.recv_timeout(1 ms) => Err(Timeout)
CmdTimeout ==
    /\ pc = "midi"
    /\ midi_q = <<>>
    /\ cmd_q = <<>>
    /\ pc' = "loop"
    /\ last' = Step("CmdTimeout", None, None, <<>>, <<>>)
    /\ UNCHANGED <<routes, clock, ports, midi_q, cmd_q, event_q, error_q, cur,
                   cmd, counters, hist,
                   refresh_sync, stale, front_end>>
    /\ n_ports_changed' = n_ports_changed + CountPortsChanged(last'.published)

\* cmd_rx.recv_timeout(1 ms) => Ok(command)
CmdRecv ==
    /\ pc = "midi"
    /\ midi_q = <<>>
    /\ cmd_q # <<>>
    /\ cmd' = Some(Head(cmd_q))
    /\ cmd_q' = Tail(cmd_q)
    /\ pc' = "exec"
    /\ last' = Step("CmdRecv", Some(Head(cmd_q)), None, <<>>, <<>>)
    /\ set_bpm_run' = IF Head(cmd_q).type = "SetBpm" THEN set_bpm_run
                      ELSE <<>>
    /\ after_empty' = IF Head(cmd_q).type = "SetRoutes" THEN after_empty
                      ELSE FALSE
    /\ synced' = None
    /\ UNCHANGED <<routes, clock, ports, midi_q, event_q, error_q, cur,
                   counters, dequeued, start_pending,
                   halted,
                   refresh_sync, stale, front_end>>
    /\ n_ports_changed' = n_ports_changed + CountPortsChanged(last'.published)

\* RefreshPorts: port_manager.clear_all() and the rescan
\* a RefreshPorts that fires the done signal as soon as it is dequeued
ExecRefreshPorts_SignalsFirst ==
    /\ pc = "exec"
    /\ cmd[1].type = "RefreshPorts"
    /\ input_connections' = {}
    /\ output_connections' = {}
    /\ stale' = {}
    /\ pc' = "refresh"
    /\ sync_call' = fire_done(sync_call, cmd[1].done_tx)
    /\ last' = Step("RefreshPorts", cmd, None, <<>>, <<>>)
    /\ UNCHANGED <<routes, clock, midi_q, cmd_q, event_q, error_q, cur, cmd,
                   counters, hist, announced, n_refreshed, n_ports_changed, front_end>>

\* a RefreshPorts that closes the inputs only
ExecRefreshPorts_KeepsOutputs ==
    /\ pc = "exec"
    /\ cmd[1].type = "RefreshPorts"
    /\ input_connections' = {}
    /\ output_connections' = output_connections
    /\ stale' = stale \cap output_connections
    /\ pc' = "refresh"
    /\ last' = Step("RefreshPorts", cmd, None, <<>>, <<>>)
    /\ UNCHANGED <<routes, clock, midi_q, cmd_q, event_q, error_q, cur, cmd,
                   counters, hist,
                   refresh_sync, front_end>>
    /\ n_ports_changed' = n_ports_changed + CountPortsChanged(last'.published)

\* RefreshPorts { done_tx }: port_manager.clear_all(), the host's refresh,
\* the two port lists
ExecRefreshPorts ==
    /\ pc = "exec"
    /\ cmd[1].type = "RefreshPorts"
    /\ input_connections' = {}
    /\ output_connections' = {}
    /\ stale' = {}
    /\ pc' = "refresh"
    /\ last' = Step("RefreshPorts", cmd, None, <<>>, <<>>)
    /\ UNCHANGED <<routes, clock, midi_q, cmd_q, event_q, error_q, cur, cmd,
                   counters, hist,
                   refresh_sync, front_end>>
    /\ n_ports_changed' = n_ports_changed + CountPortsChanged(last'.published)

\* a RefreshPorts that publishes PortsChanged only when the port lists
\* differ from the last ones published (the host's lists never change here)
RefreshPublish_OnlyOnChange ==
    /\ pc = "refresh"
    /\ pc' = "loop"
    /\ cmd' = None
    /\ sync_call' = fire_done(sync_call, cmd[1].done_tx)
    /\ announced' = announced
                     \cup {cmd[1].done_tx[i] : i \in DOMAIN cmd[1].done_tx}
    /\ n_refreshed' = n_refreshed + 1
    /\ last' = Step("RefreshPublish", cmd, None, <<>>, <<>>)
    /\ UNCHANGED <<routes, clock, ports, midi_q, cmd_q, event_q, error_q,
                   cur, counters, hist, n_ports_changed, stale, front_end>>

\* RefreshPorts: event_tx.send(PortsChanged { .. }) and the done signal
RefreshPublish ==
    /\ pc = "refresh"
    /\ CanPublish(1)
    /\ event_q' = Append(event_q, PortsChanged)
    /\ pc' = "loop"
    /\ cmd' = None
    /\ sync_call' = fire_done(sync_call, cmd[1].done_tx)
    /\ announced' = announced
                     \cup {cmd[1].done_tx[i] : i \in DOMAIN cmd[1].done_tx}
    /\ n_refreshed' = n_refreshed + 1
    /\ last' = Step("RefreshPublish", cmd, None, <<>>, <<PortsChanged>>)
    /\ UNCHANGED <<routes, clock, ports, midi_q, cmd_q, error_q, cur,
                   counters, hist, stale, front_end>>
    /\ n_ports_changed' = n_ports_changed + CountPortsChanged(last'.published)

\* SetRoutes(new_routes): replace the routes, sync_with_routes
SetRoutes(in_order, out_order, failed_in, failed_out) ==
    /\ routes' = cmd[1].routes
    /\ LET r == sync_with_routes(input_connections, output_connections,
                                 error_q, in_order, out_order,
                                 failed_in, failed_out)
       IN  /\ input_connections' = r.inputs
           /\ output_connections' = r.outputs
           /\ error_q' = r.errs
           /\ stale' = stale \cap (r.inputs \cup r.outputs)
           /\ pc' = IF r.blocked THEN "blocked" ELSE "loop"
           /\ synced' = IF after_empty /\ ~r.blocked
                        THEN Some([failed_in |-> failed_in,
                                   failed_out |-> failed_out])
                        ELSE None
           /\ after_empty' = (cmd[1].routes = <<>> /\ ~r.blocked)
    /\ cmd' = None
    /\ last' = Step("SetRoutes",
                    Some([type |-> "SetRoutes", routes |-> cmd[1].routes,
                          failed_in |-> failed_in,
                          failed_out |-> failed_out]),
                    None, <<>>, <<>>)
    /\ UNCHANGED <<clock, midi_q, cmd_q, event_q, cur, counters,
                   dequeued, start_pending, set_bpm_run,
                   halted,
                   refresh_sync, front_end>>
    /\ n_ports_changed' = n_ports_changed + CountPortsChanged(last'.published)

\* the iteration orders of the two HashSets and the ports whose
\* MidiInput::new / MidiOutput::new or connect fails are the host's choice
ExecSetRoutes ==
    /\ pc = "exec"
    /\ cmd[1].type = "SetRoutes"
    /\ \E in_order \in Orders(needed_input_ports(cmd[1].routes)),
          out_order \in Orders(needed_output_ports(cmd[1].routes)),
          failed_in \in SUBSET (needed_input_ports(cmd[1].routes)
                                   \ input_connections),
          failed_out \in SUBSET (needed_output_ports(cmd[1].routes)
                                    \ output_connections) :
          SetRoutes(in_order, out_order, failed_in, failed_out)

\* SetBpm(bpm): clock.set_bpm(bpm), publish the clock state
ExecSetBpm ==
    /\ pc = "exec"
    /\ cmd[1].type = "SetBpm"
    /\ LET r == on_SetBpm(clock, cmd[1].bpm)
       IN  /\ CanPublish(Len(r.events))
           /\ clock' = r.clock
           /\ event_q' = event_q \o r.events
           /\ last' = Step("SetBpm", cmd, Some(clock), <<>>, r.events)
           /\ set_bpm_run' =
                 (IF set_bpm_run = <<>> THEN <<>>
                  ELSE <<set_bpm_run[Len(set_bpm_run)]>>)
                 \o <<[bpm |-> cmd[1].bpm, events |-> r.events]>>
    /\ pc' = "loop"
    /\ cmd' = None
    /\ UNCHANGED <<routes, ports, midi_q, cmd_q, error_q, cur, counters,
                   dequeued, start_pending, after_empty, synced,
                   halted,
                   refresh_sync, stale, front_end>>
    /\ n_ports_changed' = n_ports_changed + CountPortsChanged(last'.published)

\* SendStart: clock.start(), publish the clock state, broadcast [0xFA]
ExecSendStart(order) ==
    /\ pc = "exec"
    /\ cmd[1].type = "SendStart"
    /\ LET r == on_SendStart(clock)
       IN  /\ CanPublish(Len(r.events))
           /\ clock' = r.clock
           /\ event_q' = event_q \o r.events
           /\ last' = Step("SendStart", cmd, Some(clock),
                           send_to_all(order, r.forward), r.events)
    /\ pc' = "loop"
    /\ cmd' = None
    /\ start_pending' = TRUE
    /\ halted' = FALSE
    /\ UNCHANGED <<routes, ports, midi_q, cmd_q, error_q, cur, counters,
                   dequeued, set_bpm_run, after_empty, synced,
                   refresh_sync, stale, front_end>>
    /\ n_ports_changed' = n_ports_changed + CountPortsChanged(last'.published)

\* SendStop: clock.stop(), publish the clock state, broadcast [0xFC]
ExecSendStop(order) ==
    /\ pc = "exec"
    /\ cmd[1].type = "SendStop"
    /\ LET r == on_SendStop(clock)
       IN  /\ CanPublish(Len(r.events))
           /\ clock' = r.clock
           /\ event_q' = event_q \o r.events
           /\ last' = Step("SendStop", cmd, Some(clock),
                           send_to_all(order, r.forward), r.events)
    /\ pc' = "loop"
    /\ cmd' = None
    /\ halted' = TRUE
    /\ UNCHANGED <<routes, ports, midi_q, cmd_q, error_q, cur, counters,
                   dequeued, start_pending, set_bpm_run, after_empty,
                   synced,
                   refresh_sync, stale, front_end>>
    /\ n_ports_changed' = n_ports_changed + CountPortsChanged(last'.published)

\* a Shutdown after which the loop goes on
ExecShutdown_KeepsRunning ==
    /\ pc = "exec"
    /\ cmd[1].type = "Shutdown"
    /\ pc' = "loop"
    /\ cmd' = None
    /\ last' = Step("Shutdown", cmd, None, <<>>, <<>>)
    /\ UNCHANGED <<routes, clock, ports, midi_q, cmd_q, event_q, error_q, cur,
                   counters, hist,
                   refresh_sync, stale, front_end>>
    /\ n_ports_changed' = n_ports_changed + CountPortsChanged(last'.published)

\* Shutdown: break; the PortManager is dropped with the thread
ExecShutdown ==
    /\ pc = "exec"
    /\ cmd[1].type = "Shutdown"
    /\ pc' = "done"
    /\ cmd' = None
    /\ input_connections' = {}
    /\ output_connections' = {}
    /\ stale' = {}
    /\ last' = Step("Shutdown", cmd, None, <<>>, <<>>)
    /\ UNCHANGED <<routes, clock, midi_q, cmd_q, event_q, error_q, cur,
                   counters, hist,
                   refresh_sync, front_end>>
    /\ n_ports_changed' = n_ports_changed + CountPortsChanged(last'.published)

Next ==
    \/ \E port \in OsInputs, bytes \in Packets : Callback(port, bytes)
    \/ \E c \in Commands : Submit(c)
    \/ ConsumeEvent
    \/ RefreshPortsSync
    \/ RefreshSyncTimeout
    \/ DrainError
    \/ \E d \in Elapsed, order \in Orders(output_connections) :
          ClockTick(d, order)
    \/ MidiRecv
    \/ \E order \in Orders(output_connections) : Transport(order)
    \/ Activity
    \/ RoutePacket
    \/ CmdTimeout
    \/ CmdRecv
    \/ ExecRefreshPorts
    \/ RefreshPublish
    \/ ExecSetRoutes
    \/ ExecSetBpm
    \/ \E order \in Orders(output_connections) : ExecSendStart(order)
    \/ \E order \in Orders(output_connections) : ExecSendStop(order)
    \/ ExecShutdown

Spec == Init /\ [][Next]_vars

(***************************************************************************)
(* Properties.                                                             *)
(***************************************************************************)
\* the bytes that start a transport packet, as the MIDI standard numbers them
TransportBytes == {248, 250, 251, 252}

\* the first byte of a packet, or -1 for the empty packet
FirstByte(bytes) == IF bytes = <<>> THEN -1 ELSE bytes[1]

\* the packet the latest step handled (for the steps that handle one)
LastPacket == last.arg[1].bytes

PacketSteps == {"MidiRecv", "Transport", "Activity", "RoutePacket"}

\* the (destination, message) pairs of the routes of rs, in route order, that
\* are enabled, have source port_name and a channel filter passing bytes
ExpectedSends(rs, port_name, bytes) ==
    Flatten([i \in 1..Len(rs) |->
        IF /\ rs[i].enabled
           /\ rs[i].source = port_name
           /\ should_route(bytes, rs[i].channels)
        THEN [k \in 1..Len(apply_cc_mappings(bytes, rs[i])) |->
                 <<rs[i].destination, apply_cc_mappings(bytes, rs[i])[k]>>]
        ELSE <<>>])

\* the (port, bytes) pairs of a sequence of calls
Calls(sent) == [k \in 1..Len(sent) |-> <<sent[k].port, sent[k].bytes>>]

\* C1: the dispatch of a non-transport packet from port P calls send_to
\* exactly once, in route order, for each pair (r, m) with r a route of the
\* route set in force when the packet was dequeued that is enabled, has
\* source P and passes should_route, and m an element of
\* apply_cc_mappings(bytes, r), and for nothing else; while a packet is in
\* dispatch the engine is inside the packet loop and the route set is the
\* one of the dequeue, and SetRoutes is processed only between packets.
C1_DispatchFollowsRoutes ==
    /\ last.step = "RoutePacket" =>
          /\ Calls(last.sent) = ExpectedSends(last.arg[1].routes,
                                              last.arg[1].port,
                                              last.arg[1].bytes)
          /\ \A k \in 1..Len(last.sent) : last.sent[k].call = "send_to"
          /\ last.arg[1].routes = routes
    /\ cur # None =>
          /\ pc \in {"transport", "activity", "route"}
          /\ dequeued # None
          /\ dequeued[1].routes = routes
          /\ cmd = None
    /\ last.step = "SetRoutes" => cur = None

\* C1 witness: a CC packet dispatched over a route whose mapping fans it out
\* to two messages, next to a disabled route with the same source
C1_Witness ==
    /\ last.step = "RoutePacket"
    /\ Len(last.sent) = 2
    /\ last.sent[1].bytes # last.arg[1].bytes
    /\ \E i \in 1..Len(routes) :
          ~routes[i].enabled /\ routes[i].source = last.arg[1].port

\* C2: a packet whose first byte is 0xF8, 0xFA, 0xFB or 0xFC never reaches
\* the per-route dispatch and no send_to call is made for it.
C2_TransportNotRouted ==
    /\ pc = "route" => FirstByte(cur[1].bytes) \notin TransportBytes
    /\ last.step = "RoutePacket" =>
          FirstByte(last.arg[1].bytes) \notin TransportBytes
    /\ \A k \in 1..Len(last.sent) :
          last.sent[k].call = "send_to" => last.step = "RoutePacket"
    /\ (last.step \in PacketSteps
           /\ FirstByte(LastPacket) \in TransportBytes) =>
          \A k \in 1..Len(last.sent) : last.sent[k].call # "send_to"

\* C2 witness: the handling of a Stop packet has ended while an enabled
\* route with the packet's source and an open destination was in force
C2_Witness ==
    /\ last.step = "Activity"
    /\ LastPacket = <<252>>
    /\ pc = "midi"
    /\ \E i \in 1..Len(routes) :
          /\ routes[i].enabled
          /\ routes[i].source = last.arg[1].port
          /\ routes[i].destination \in output_connections

\* C3: an inbound packet whose first byte is Start, Continue or Stop goes
\* through the transport step, which broadcasts that one byte to every open
\* output exactly once, whether or not the running flag changed; for an
\* inbound Clock packet nothing is sent and the clock is left as it was.
C3_TransportBroadcast ==
    /\ (last.step = "MidiRecv" /\ FirstByte(LastPacket) \in {250, 251, 252})
          => pc = "transport"
    /\ last.step = "Transport" =>
          /\ FirstByte(LastPacket) \in {250, 251, 252}
          /\ Len(last.sent) = Cardinality(output_connections)
          /\ {last.sent[k].port : k \in 1..Len(last.sent)}
                = output_connections
          /\ \A k \in 1..Len(last.sent) :
                /\ last.sent[k].call = "send_to_all"
                /\ last.sent[k].bytes = <<FirstByte(LastPacket)>>
    /\ (last.step \in PacketSteps /\ FirstByte(LastPacket) = 248) =>
          /\ last.step \in {"MidiRecv", "Activity"}
          /\ last.sent = <<>>
          /\ last.step = "Activity" => last.before = Some(clock)
    /\ (cur # None /\ FirstByte(cur[1].bytes) = 248) =>
          /\ pc = "activity"
          /\ clock = dequeued[1].clock

\* C3 witness: a Stop packet broadcast to two open outputs while the clock
\* was already stopped
C3_Witness ==
    /\ last.step = "Transport"
    /\ LastPacket = <<252>>
    /\ ~last.before[1].running
    /\ Len(last.sent) = 2

\* C3 witness for the Clock part: an inbound Clock packet was handled while
\* outputs were open
C3_ClockWitness ==
    /\ last.step = "Activity"
    /\ LastPacket = <<248>>
    /\ output_connections # {}

\* C4: handling an inbound Start, Continue or Stop publishes one
\* ClockStateChanged, with the clock's bpm and running flag, if and only if
\* the running flag changes (Start or Continue while stopped, Stop while
\* running); an inbound Start on a stopped clock leaves the clock running.
C4_PublishOnChange ==
    last.step = "Transport" =>
        /\ (last.published # <<>>)
              <=> (clock.running # last.before[1].running)
        /\ (last.published # <<>>)
              <=> \/ /\ FirstByte(LastPacket) \in {250, 251}
                     /\ ~last.before[1].running
                  \/ /\ FirstByte(LastPacket) = 252
                     /\ last.before[1].running
        /\ last.published # <<>> =>
              last.published =
                 <<[type |-> "ClockStateChanged", bpm |-> clock.bpm,
                    running |-> clock.running]>>
        /\ (FirstByte(LastPacket) = 250 /\ ~last.before[1].running)
              => clock.running

\* C4 witness: an inbound Start on a stopped clock
C4_Witness ==
    /\ last.step = "Transport"
    /\ LastPacket = <<250>>
    /\ ~last.before[1].running
    /\ last.published # <<>>

\* C4 witness for the other direction: an inbound Continue on a running
\* clock, nothing published
C4_NoChangeWitness ==
    /\ last.step = "Transport"
    /\ LastPacket = <<251>>
    /\ last.before[1].running
    /\ last.published = <<>>

Broadcast(sent, byte) ==
    /\ Len(sent) = Cardinality(output_connections)
    /\ {sent[k].port : k \in 1..Len(sent)} = output_connections
    /\ \A k \in 1..Len(sent) :
          sent[k].call = "send_to_all" /\ sent[k].bytes = <<byte>>

\* C6: processing SendStart sets running, publishes
\* ClockStateChanged{running: true} with the current bpm and broadcasts
\* [0xFA] to every open output; from then until the next call of should_tick
\* the engine is at the top of the loop with no command in hand and a cleared
\* schedule, and that call broadcasts [0xF8] to every open output.
C6_StartThenPulse ==
    /\ last.step = "SendStart" =>
          /\ clock.running
          /\ clock.bpm = last.before[1].bpm
          /\ last.published =
                <<[type |-> "ClockStateChanged", bpm |-> clock.bpm,
                   running |-> TRUE]>>
          /\ Broadcast(last.sent, 250)
          /\ start_pending
    /\ start_pending =>
          /\ pc = "loop"
          /\ cmd = None
          /\ clock.running
          /\ clock.last_tick = None
          /\ last.step \in {"SendStart", "DrainError", "env"}
    /\ (last.step = "ClockTick" /\ last.arg = Some(TRUE)) =>
          Broadcast(last.sent, 248)

\* C6 witness: the pulse that follows a SendStart, sent to two open
\* outputs, the schedule restarted from it
C6_Witness ==
    /\ last.step = "ClockTick"
    /\ last.arg = Some(TRUE)
    /\ Len(last.sent) = 2
    /\ clock.last_tick = Some(0)

\* C6 witness: SendStart processed on a clock already running whose
\* last_tick was set
C6_RestartWitness ==
    /\ last.step = "SendStart"
    /\ last.before[1].running
    /\ last.before[1].last_tick # None

\* C7: [0xF8] is broadcast only by the clock step and only while the clock is
\* running; processing SendStop clears running, publishes
\* ClockStateChanged{running: false} with the current bpm and broadcasts
\* [0xFC]; once a SendStop or an inbound Stop has been processed the clock
\* stays stopped, and no [0xF8] is broadcast, until a Start or a Continue
\* is processed.
C7_PulsesOnlyWhileRunning ==
    /\ \A k \in 1..Len(last.sent) :
          (last.sent[k].call = "send_to_all" /\ last.sent[k].bytes = <<248>>)
             => (last.step = "ClockTick" /\ clock.running /\ ~halted)
    /\ last.step = "SendStop" =>
          /\ ~clock.running
          /\ halted
          /\ clock.bpm = last.before[1].bpm
          /\ last.published =
                <<[type |-> "ClockStateChanged", bpm |-> clock.bpm,
                   running |-> FALSE]>>
          /\ Broadcast(last.sent, 252)
    /\ (last.step = "Transport" /\ FirstByte(LastPacket) = 252) => halted
    /\ halted => ~clock.running
    /\ (last.step = "ClockTick" /\ ~clock.running) => last.sent = <<>>

\* C7 witness: should_tick called on a clock that a Stop has stopped, with
\* outputs open and a schedule in place
C7_Witness ==
    /\ last.step = "ClockTick"
    /\ halted
    /\ clock.last_tick # None
    /\ output_connections # {}

\* C8: the clock's bpm is always within [20, 300]; SetBpm(x) stores x clamped
\* to that range (20 for less, 300 for more, x itself otherwise), publishes
\* no error, and changes neither running nor last_tick.
C8_BpmClamped ==
    /\ clock.bpm >= 20
    /\ clock.bpm <= 300
    /\ last.step = "SetBpm" =>
          /\ clock.bpm = (IF last.arg[1].bpm < 20 THEN 20
                          ELSE IF last.arg[1].bpm > 300 THEN 300
                          ELSE last.arg[1].bpm)
          /\ clock.running = last.before[1].running
          /\ clock.last_tick = last.before[1].last_tick
          /\ \A k \in 1..Len(last.published) :
                last.published[k].type # "Error"
          /\ pc = "loop"

\* C8 witness: SetBpm(10) processed on a running clock with a schedule
C8_Witness ==
    /\ last.step = "SetBpm"
    /\ last.arg[1].bpm = 10
    /\ clock.bpm = 20
    /\ clock.running
    /\ clock.last_tick # None

\* C9: every processed SetBpm(x) publishes exactly one ClockStateChanged,
\* carrying x clamped and the running flag of the moment, also when the
\* stored value does not change; two SetBpm(x) in a row, with no change of
\* the running flag between them, publish the same event twice.
C9_OneEventPerSetBpm ==
    /\ last.step = "SetBpm" =>
          /\ last.published =
                <<[type |-> "ClockStateChanged",
                   bpm |-> (IF last.arg[1].bpm < 20 THEN 20
                            ELSE IF last.arg[1].bpm > 300 THEN 300
                            ELSE last.arg[1].bpm),
                   running |-> last.before[1].running]>>
          /\ set_bpm_run # <<>>
          /\ set_bpm_run[Len(set_bpm_run)].events = last.published
    /\ (Len(set_bpm_run) = 2 /\ set_bpm_run[1].bpm = set_bpm_run[2].bpm) =>
          /\ Len(set_bpm_run[1].events) = 1
          /\ set_bpm_run[2].events = set_bpm_run[1].events

\* C9 witness: the second of two SetBpm(500) in a row has been processed
C9_Witness ==
    /\ last.step = "SetBpm"
    /\ Len(set_bpm_run) = 2
    /\ set_bpm_run[1].bpm = 500
    /\ set_bpm_run[2].bpm = 500
    /\ last.before[1].bpm = 300

\* the ports the enabled routes of rs name as source, as destination
EnabledSources(rs) ==
    {rs[i].source : i \in {k \in 1..Len(rs) : rs[k].enabled}}
EnabledDestinations(rs) ==
    {rs[i].destination : i \in {k \in 1..Len(rs) : rs[k].enabled}}

\* C10 as stated: after SetRoutes([]) then SetRoutes(R) the open inputs are
\* exactly the sources, and the open outputs exactly the destinations, of
\* the enabled routes of R.
C10_OpenEqualsNeeded ==
    synced # None =>
        /\ input_connections = EnabledSources(routes)
        /\ output_connections = EnabledDestinations(routes)

\* C10 amended: after SetRoutes([]) then SetRoutes(R) the open inputs are
\* the sources of the enabled routes of R that the host lists and whose
\* connection did not fail, and likewise the open outputs; a disabled route
\* contributes no port.
C10_OpenEqualsNeededAvailable ==
    synced # None =>
        /\ input_connections =
              (EnabledSources(routes) \cap OsInputs) \ synced[1].failed_in
        /\ output_connections =
              (EnabledDestinations(routes) \cap OsOutputs)
                 \ synced[1].failed_out

\* C10 witness: SetRoutes([]) then SetRoutes of an enabled and a disabled
\* route with the same source, every connection succeeding
C10_Witness ==
    /\ synced # None
    /\ last.step = "SetRoutes"
    /\ \E i \in 1..Len(routes) :
          ~routes[i].enabled /\ routes[i].destination \in OsOutputs
    /\ synced[1].failed_in = {}
    /\ synced[1].failed_out = {}
    /\ input_connections = {"A"}
    /\ output_connections = {"B"}

\* the command of the latest step (for the steps that process a command)
LastCmd == last.arg[1]

\* the number of PortConnectionFailed errors for port name in a queue
FailuresFor(q, name) ==
    Cardinality({k \in 1..Len(q) :
                    q[k].kind = "PortConnectionFailed"
                       /\ q[k].port_name = name})

\* C11: in one sync_with_routes every needed port whose opening fails puts
\* exactly one PortConnectionFailed for it on error_q, every other needed
\* port the host lists is open when the SetRoutes step is over, and the
\* route set is the one the command gave.
C11_FailureDoesNotStopSync ==
    last.step = "SetRoutes" =>
        /\ \A name \in LastCmd.failed_in \cup LastCmd.failed_out :
              FailuresFor(error_q, name) = 1
        /\ Len(error_q) =
              Cardinality(LastCmd.failed_in) + Cardinality(LastCmd.failed_out)
        /\ (EnabledSources(LastCmd.routes) \cap OsInputs)
              \ LastCmd.failed_in \subseteq input_connections
        /\ (EnabledDestinations(LastCmd.routes) \cap OsOutputs)
              \ LastCmd.failed_out \subseteq output_connections
        /\ routes = LastCmd.routes

\* the ports of the enabled routes of rs are all absent from the host
OnlyAbsentPorts(rs) ==
    /\ EnabledSources(rs) \cup EnabledDestinations(rs) # {}
    /\ EnabledSources(rs) \cap OsInputs = {}
    /\ EnabledDestinations(rs) \cap OsOutputs = {}

C13_ErrorsReemitted ==
    /\ last.step = "DrainError" =>
          /\ Len(last.published) = 1
          /\ last.published[1].type = "Error"
    /\ error_q # <<>> => pc \notin {"blocked", "done"}

\* C14: every send_to that fails during the dispatch of a packet is
\* reported: the dispatch publishes an Error event carrying SendFailed for
\* the destination of each failed call.
C14_SendFailureReported ==
    last.step = "RoutePacket" =>
        \A k \in 1..Len(last.sent) :
            ~last.sent[k].ok =>
                \E e \in 1..Len(last.published) :
                    /\ last.published[e].type = "Error"
                    /\ last.published[e].kind = "SendFailed"
                    /\ last.published[e].port_name = last.sent[k].port

\* C15: a failed send_to does not stop the dispatch: every call the routes
\* ask for is made, whichever of them fail; a call fails exactly when its
\* destination is not open (reason "Port not connected", nothing sent) or
\* the host's send fails; afterwards the engine is back at the packet loop
\* with the route set unchanged.
C15_FailedSendDoesNotHalt ==
    last.step = "RoutePacket" =>
        /\ Len(last.sent) =
              Len(ExpectedSends(routes, last.arg[1].port, last.arg[1].bytes))
        /\ \A k \in 1..Len(last.sent) :
              /\ <<last.sent[k].port, last.sent[k].bytes>> =
                    ExpectedSends(routes, last.arg[1].port,
                                  last.arg[1].bytes)[k]
              /\ last.sent[k].ok <=>
                    /\ last.sent[k].port \in output_connections
                    /\ last.sent[k].port \notin last.arg[1].broken
              /\ last.sent[k].port \notin output_connections =>
                    last.sent[k].reason = "Port not connected"
              /\ last.sent[k].ok => last.sent[k].reason = ""
        /\ pc = "midi"
        /\ cur = None
        /\ routes = last.arg[1].routes

\* C15 witness: a dispatch whose first send_to failed on a destination that
\* is not open, followed by a send_to of another route, while another
\* packet waits on midi_q
C15_Witness ==
    /\ last.step = "RoutePacket"
    /\ Len(last.sent) >= 2
    /\ ~last.sent[1].ok
    /\ last.sent[1].reason = "Port not connected"
    /\ last.sent[2].port # last.sent[1].port
    /\ last.sent[2].ok
    /\ midi_q # <<>>

\* C15 witness: a route's mapping produced two messages, the send of the
\* first failed in the host and the second was sent all the same
C15_FanOutWitness ==
    /\ last.step = "RoutePacket"
    /\ Len(last.sent) = 2
    /\ last.sent[1].port = last.sent[2].port
    /\ last.sent[1].reason = "send error"

\* C16: a RefreshPorts closes every connection before it publishes its
\* PortsChanged and fires the done signal after it: a refresh_ports_sync
\* call has returned Ok only if the PortsChanged of its refresh was
\* published, and it no longer waits once that refresh was processed
SyncDone == sync_call[1].done
SyncResult == sync_call[1].result
C16_RefreshThenPublishThenDone ==
    /\ pc = "refresh" =>
          /\ input_connections = {} /\ output_connections = {}
          /\ \A i \in DOMAIN cmd[1].done_tx :
                /\ cmd[1].done_tx[i] \notin announced
                /\ sync_call # None /\ SyncDone = cmd[1].done_tx[i]
                      => SyncResult # "Ok"
    /\ last.step = "RefreshPorts" =>
          /\ last.published = <<>>
          /\ pc = "refresh"
    /\ last.step = "RefreshPublish" =>
          /\ last.published = <<PortsChanged>>
          /\ input_connections = {} /\ output_connections = {}
          /\ \A i \in DOMAIN LastCmd.done_tx :
                LastCmd.done_tx[i] \in announced
    /\ sync_call # None =>
          /\ SyncResult = "Ok" => SyncDone \in announced
          /\ SyncDone \in announced => SyncResult # "waiting"

C16_Witness ==
    /\ last.step = "RefreshPublish"
    /\ sync_call # None
    /\ SyncResult = "Ok"
    /\ LastCmd.done_tx = Some(SyncDone)

\* a call that gave up after 5 s, its refresh processed afterwards
C16_TimeoutWitness ==
    /\ last.step = "RefreshPublish"
    /\ sync_call # None
    /\ SyncResult = "Err"
    /\ LastCmd.done_tx = Some(SyncDone)

\* C17: PortsChanged is published at boot and once for each RefreshPorts
\* processed, and by nothing else
C17_PortsChangedOnlyOnRefresh ==
    /\ n_ports_changed = 1 + n_refreshed
    /\ CountPortsChanged(last.published) > 0 =>
          /\ last.step = "RefreshPublish"
          /\ LastCmd.type = "RefreshPorts"
    /\ last.step \in {"SetRoutes", "SetBpm", "SendStart", "SendStop",
                       "Transport", "Activity", "RoutePacket", "MidiRecv"}
          => CountPortsChanged(last.published) = 0

C17_Witness ==
    /\ n_refreshed = 2
    /\ last.step = "RefreshPublish"

\* the other commands and an inbound packet, processed after a refresh
C17_OtherStepsWitness ==
    /\ n_refreshed = 1
    /\ last.step \in {"SetRoutes", "SetBpm", "SendStart", "SendStop",
                       "Activity"}
    /\ last.step = "Activity" => last.published # <<>>
\* C18: until the first command or inbound packet is taken from its queue
\* the engine has no port open, no route and the clock stopped at 120 BPM,
\* and what it has published is PortsChanged then
\* ClockStateChanged{bpm: 120, running: false}, with nothing after them
NothingProcessed ==
    /\ n_cmds = Len(cmd_q)
    /\ cmd = None
    /\ n_pkts = Len(midi_q)
    /\ cur = None
BootEvents ==
    <<PortsChanged,
      [type |-> "ClockStateChanged", bpm |-> 120, running |-> FALSE]>>
C18_BootState ==
    NothingProcessed =>
        /\ input_connections = {} /\ output_connections = {}
        /\ routes = <<>>
        /\ clock.bpm = 120 /\ clock.running = FALSE
        /\ error_q = <<>>
        /\ n_ports_changed = 1
        /\ \E k \in 0..2 : event_q = SubSeq(BootEvents, k + 1, 2)
        /\ last.published = <<>> /\ last.sent = <<>>

\* the loop has gone round once with nothing to do, both events unread
C18_Witness ==
    /\ NothingProcessed
    /\ last.step = "CmdTimeout"
    /\ event_q = BootEvents

\* a subscriber has read PortsChanged, a command waits on cmd_q
C18_QueuedWitness ==
    /\ NothingProcessed
    /\ cmd_q # <<>>
    /\ Len(event_q) = 1
\* C19: once Shutdown is on cmd_q the engine thread reaches it without the
\* help of a subscriber: until it has left the loop it always has a step to
\* take of its own (the case of a thread stopped inside sync_with_routes
\* set apart)
EngineStep ==
    \/ DrainError
    \/ \E d \in Elapsed, order \in Orders(output_connections) :
          ClockTick(d, order)
    \/ MidiRecv
    \/ \E order \in Orders(output_connections) : Transport(order)
    \/ Activity
    \/ RoutePacket
    \/ CmdTimeout
    \/ CmdRecv
    \/ ExecRefreshPorts
    \/ RefreshPublish
    \/ ExecSetRoutes
    \/ ExecSetBpm
    \/ \E order \in Orders(output_connections) : ExecSendStart(order)
    \/ \E order \in Orders(output_connections) : ExecSendStop(order)
    \/ ExecShutdown
ShutdownSubmitted ==
    \/ \E i \in DOMAIN cmd_q : cmd_q[i].type = "Shutdown"
    \/ \E i \in DOMAIN cmd : cmd[i].type = "Shutdown"
C19_ShutdownTerminates ==
    ShutdownSubmitted /\ pc # "blocked" => ENABLED EngineStep
\* C20: the engine thread never waits on error_q: a SetRoutes, whatever the
\* number of ports that fail to open, ends with error_tx.send having
\* returned for each of them and the thread back at the top of the loop
C20_NeverBlocksOnErrorQ ==
    /\ pc # "blocked"
    /\ last.step = "SetRoutes" =>
          /\ pc = "loop"
          /\ Len(error_q) = Cardinality(LastCmd.failed_in)
                              + Cardinality(LastCmd.failed_out)
\* C21: an input callback never waits: at any moment a packet may arrive on
\* an open input, and the callback that sends it on midi_q returns at once.
\* The callback of the code returns only once tx.send has found room
\* (Callback is not enabled while midi_q is full), so it never waits only
\* if midi_q is never full while an input is open
C21_CallbackNeverBlocks ==
    input_connections # {} => Len(midi_q) < MidiCap

\* C22: send_command never waits for space: on a full cmd_q it returns (an
\* error) without the engine having to take a command first
SubmitStep == \E c \in Commands : Submit(c)
C22_SubmitNeverWaits ==
    pc # "done" /\ n_cmds < MaxCmds => ENABLED SubmitStep

\* C23: a full event_q does not stop the engine: with event_q full and no
\* subscriber reading, the thread still has a step of its own to take
\* (the thread stopped inside sync_with_routes and the one that has left
\* the loop set apart)
C23_FullEventQueueDoesNotStall ==
    Len(event_q) = EventCap /\ pc \notin {"blocked", "done"}
        => ENABLED EngineStep
\* C24: order is kept from the callbacks to the outputs: a callback pushes
\* at the back of midi_q, the engine takes the front and only when it has
\* finished with the previous packet, and what one dispatch sends to a
\* destination is, in order, what the matching routes produce for the
\* packet in dispatch, route after route and message after message
Destinations == OsOutputs \cup {"Y"}
SentTo(sent, d) == SelectSeq(Calls(sent), LAMBDA c : c[1] = d)
ExpectedTo(rs, port_name, bytes, d) ==
    SelectSeq(ExpectedSends(rs, port_name, bytes), LAMBDA e : e[1] = d)
C24_OrderPreserved ==
    [][/\ n_pkts' # n_pkts =>
             /\ Len(midi_q') = Len(midi_q) + 1
             /\ SubSeq(midi_q', 1, Len(midi_q)) = midi_q
       /\ cur' # cur /\ cur' # None =>
             /\ cur = None
             /\ midi_q # <<>>
             /\ cur' = Some(Head(midi_q))
             /\ midi_q' = Tail(midi_q)
       /\ Len(midi_q') < Len(midi_q) =>
             /\ cur = None
             /\ midi_q' = Tail(midi_q)
       /\ pc = "route" /\ pc' # "route" =>
             /\ last'.step = "RoutePacket"
             /\ \A d \in Destinations :
                   SentTo(last'.sent, d)
                      = ExpectedTo(routes, cur[1].port, cur[1].bytes, d)
             /\ cur' = None
       /\ pc = "transport" /\ pc' # "transport" =>
             \A k \in 1..Len(last'.sent) :
                last'.sent[k].bytes = <<cur[1].bytes[1]>>
      ]_vars

\* the older of two different packets that waited together is taken first
C24_Witness ==
    /\ last.step = "MidiRecv"
    /\ midi_q # <<>>
    /\ midi_q[1] # last.arg[1]

\* two messages derived from one packet sent to one destination while the
\* next packet waits
C24_FanOutWitness ==
    /\ last.step = "RoutePacket"
    /\ midi_q # <<>>
    /\ \E d \in Destinations : Len(SentTo(last.sent, d)) >= 2
\* C25: the step that follows the dequeue (and the transport match) of a
\* packet publishes one MidiActivity event carrying that packet, whatever
\* the packet and the routes, and sends nothing: the sends of the route
\* dispatch come in a later step
C25_ActivityForEveryPacket ==
    /\ last.step = "Activity" =>
          /\ last.published = <<MidiActivity(last.arg[1])>>
          /\ last.sent = <<>>
    /\ pc = "route" => last.step \in {"Activity", "env"}
(***************************************************************************)
(* PortManager and a device that is unplugged and plugged back.  The       *)
(* engine receives SetRoutes commands only and no packet; the host may     *)
(* take away and bring back the device of an open connection, which the    *)
(* program does not observe: the connection object stays in its map.       *)
(***************************************************************************)
\* the device of the open connection p disappears from the host and comes
\* back: the connection opened before is dead, the port is listed again
Replug(p) ==
    /\ p \in (input_connections \cup output_connections) \ stale
    /\ stale' = stale \cup {p}
    /\ last' = EnvStep
    /\ UNCHANGED <<pc, routes, clock, ports, midi_q, cmd_q, event_q, error_q,
                   cur, cmd, counters, hist, refresh_sync, n_ports_changed, front_end>>

\* three sources the host does not list, more than error_q holds
RoutesManyAbsent ==
    <<RouteAbsent, Route("X2", "Y", TRUE, FilterAll, TRUE, <<>>),
      Route("X3", "Y", TRUE, FilterAll, TRUE, <<>>)>>

SyncCommands ==
    {[type |-> "SetRoutes", routes |-> rs] :
        rs \in RouteSets \cup {RoutesManyAbsent}}

NextSync ==
    \/ \E p \in OsInputs \cup OsOutputs : Replug(p)
    \/ \E c \in SyncCommands : Submit(c)
    \/ ConsumeEvent
    \/ DrainError
    \/ \E d \in Elapsed, order \in Orders(output_connections) :
          ClockTick(d, order)
    \/ CmdTimeout
    \/ CmdRecv
    \/ ExecSetRoutes

SpecSync == Init /\ [][NextSync]_vars

\* C30: a SetRoutes that still needs a port whose device was unplugged
\* while its connection was open opens the port afresh: when the sync has
\* returned, no port the routes need is served by a dead connection
C30_StaleReopened ==
    last.step = "SetRoutes" /\ pc = "loop" =>
        stale \cap (needed_input_ports(routes)
                       \cup needed_output_ports(routes)) = {}

(***************************************************************************)
(* midi/router.rs on its own: should_route and apply_cc_mappings applied   *)
(* to one packet and one route drawn from the sets below.  cur holds the   *)
(* packet, routes the route, last.sent the value returned.                 *)
(***************************************************************************)
\* a stored channel is a u8
U8Max == 255

RouterPackets ==
    { <<176, 7, 10>>, <<181, 1, 64>>, <<191, 7, 127>>, <<176, 9, 0>>,
      <<176, 7>>, <<144, 60, 100>>, <<129, 60, 0>>, <<239, 1, 1>>,
      <<240, 1, 2>>, <<60, 100, 1>>, <<250>>, <<>> }

RouterFilters ==
    {FilterAll}
    \cup {FilterOnly(s) : s \in {<<>>, <<0>>, <<1, 15>>, <<5, 0>>}}
    \cup {FilterExcept(s) : s \in {<<>>, <<0>>, <<1, 15>>, <<5, 0>>}}

RouterMappings ==
    { <<>>,
      <<CcMapping(1, <<CcTarget(74, <<1>>)>>),
        CcMapping(1, <<CcTarget(71, <<2>>)>>)>>,
      <<CcMapping(9, <<CcTarget(20, <<3>>)>>),
        CcMapping(7, <<CcTarget(10, <<1, 2>>), CcTarget(11, <<16, 3>>)>>),
        CcMapping(7, <<CcTarget(12, <<4>>)>>)>>,
      <<CcMapping(7, <<>>)>>,
      <<CcMapping(7, <<CcTarget(10, <<>>), CcTarget(11, <<5>>)>>)>> }

RouterRoutes ==
    {Route("A", "B", TRUE, f, pass, maps) :
        f \in RouterFilters, pass \in BOOLEAN, maps \in RouterMappings}
    \cup {Route("A", "B", TRUE, FilterAll, TRUE,
                <<CcMapping(7, <<CcTarget(10, <<ch>>)>>)>>) : ch \in 0..U8Max}

InitRouter ==
    /\ pc = "router"
    /\ cur \in {Some([port |-> "A", bytes |-> b]) : b \in RouterPackets}
    /\ routes \in {<<r>> : r \in RouterRoutes}
    /\ last = EnvStep
    /\ clock = ClockGenerator_new(BpmDefault)
    /\ input_connections = {}
    /\ output_connections = {}
    /\ midi_q = <<>>
    /\ cmd_q = <<>>
    /\ event_q = <<>>
    /\ error_q = <<>>
    /\ cmd = None
    /\ n_cmds = 0
    /\ n_pkts = 0
    /\ dequeued = None
    /\ start_pending = FALSE
    /\ set_bpm_run = <<>>
    /\ halted = FALSE
    /\ after_empty = FALSE
    /\ synced = None
    /\ sync_call = None
    /\ announced = {}
    /\ n_ports_changed = 0
    /\ n_refreshed = 0
    /\ stale = {}
    /\ app_routes = <<>>
    /\ get_ports_call = None

router_rest ==
    <<pc, routes, clock, input_connections, output_connections, midi_q,
      cmd_q, event_q, error_q, cur, cmd, n_cmds, n_pkts, dequeued,
      start_pending, set_bpm_run, halted, after_empty, synced, sync_call,
      announced, n_ports_changed, n_refreshed, stale, front_end>>

\* apply_cc_mappings(&bytes, route)
ApplyCcMappings ==
    /\ pc = "router"
    /\ last' = Step("apply_cc_mappings", cur, None,
                    apply_cc_mappings(cur[1].bytes, routes[1]), <<>>)
    /\ UNCHANGED router_rest

\* should_route(&bytes, &route.channels)
ShouldRoute ==
    /\ pc = "router"
    /\ last' = Step("should_route", cur, None,
                    <<should_route(cur[1].bytes, routes[1].channels)>>, <<>>)
    /\ UNCHANGED router_rest

NextRouter ==
    \/ ApplyCcMappings
    \/ ShouldRoute

SpecRouter == InitRouter /\ [][NextRouter]_vars

\* the packet and the route of the latest call, and what it returned
CallBytes == last.arg[1].bytes
CallRoute == routes[1]
Returned == last.sent
IsCc(b) == Len(b) >= 3 /\ b[1] >= 176 /\ b[1] <= 191
\* the indices of the mappings of the route for the CC number of b
Matching(b, r) ==
    {i \in 1..Len(r.cc_mappings) : r.cc_mappings[i].source_cc = b[2]}
First(S) == CHOOSE i \in S : \A j \in S : i <= j

RECURSIVE SumChannels(_)
\* the number of channels of a sequence of targets
SumChannels(targets) ==
    IF targets = <<>> THEN 0
    ELSE Len(Head(targets).channels) + SumChannels(Tail(targets))

\* the position in the output of channel c of target k
Position(targets, k, c) == SumChannels(SubSeq(targets, 1, k - 1)) + c

\* C26: for a CC packet with a mapping of its CC number, apply_cc_mappings
\* returns the expansion of the first such mapping and nothing of a later
\* one: one packet per target and channel, in order, of status
\* 0xB0 | (ch - 1) for a stored channel 1..16, the target's cc and the
\* input's value
C26_FirstMappingExpanded ==
    last.step = "apply_cc_mappings" /\ IsCc(CallBytes)
      /\ Matching(CallBytes, CallRoute) # {} =>
        LET targets ==
                CallRoute.cc_mappings[First(Matching(CallBytes, CallRoute))]
                   .targets
        IN  /\ Len(Returned) = SumChannels(targets)
            /\ \A k \in 1..Len(targets) :
                  \A c \in 1..Len(targets[k].channels) :
                     LET out == Returned[Position(targets, k, c)]
                         ch == targets[k].channels[c]
                     IN  /\ Len(out) = 3
                         /\ out[2] = targets[k].cc
                         /\ out[3] = CallBytes[3]
                         /\ ch >= 1 => out[1] = BitOr(176, ch - 1)
                         /\ ch \in 1..16 => out[1] = 176 + (ch - 1)

\* the CC number 7 mapped twice, the first mapping with two targets
C26_Witness ==
    /\ last.step = "apply_cc_mappings"
    /\ IsCc(CallBytes)
    /\ Cardinality(Matching(CallBytes, CallRoute)) = 2
    /\ Len(Returned) = 4
\* C27: apply_cc_mappings returns the packet alone and unchanged when it is
\* not a CC message (status outside 0xB0..0xBF or fewer than 3 bytes),
\* whatever the route; for a CC packet whose CC number no mapping has, it
\* returns the packet alone when cc_passthrough is set and nothing when it
\* is not
C27_UnmappedPassOrBlock ==
    last.step = "apply_cc_mappings" =>
        /\ ~IsCc(CallBytes) => Returned = <<CallBytes>>
        /\ IsCc(CallBytes) /\ Matching(CallBytes, CallRoute) = {} =>
              Returned = IF CallRoute.cc_passthrough THEN <<CallBytes>>
                         ELSE <<>>

\* an unmapped CC blocked by a route that maps another CC number
C27_Witness ==
    /\ last.step = "apply_cc_mappings"
    /\ IsCc(CallBytes)
    /\ CallRoute.cc_mappings # <<>>
    /\ Matching(CallBytes, CallRoute) = {}
    /\ ~CallRoute.cc_passthrough
    /\ Returned = <<>>

\* a two-byte packet of status 0xB0 returned as it is by a route that maps
\* its CC number and has no passthrough
C27_ShortWitness ==
    /\ last.step = "apply_cc_mappings"
    /\ CallBytes = <<176, 7>>
    /\ ~CallRoute.cc_passthrough
    /\ \E i \in 1..Len(CallRoute.cc_mappings) :
          CallRoute.cc_mappings[i].source_cc = 7
    /\ Returned = <<CallBytes>>
\* C28: every packet a CC mapping produces has 3 bytes and a status in
\* 0xB0..0xBF whose low nibble is max(ch, 1) - 1 clamped into 0..15, for
\* every stored channel ch in 0..255
ClampedChannel(ch) ==
    LET c == (IF ch > 1 THEN ch ELSE 1) - 1 IN IF c > 15 THEN 15 ELSE c
C28_MappedStatusIsCc ==
    last.step = "apply_cc_mappings" /\ IsCc(CallBytes)
      /\ Matching(CallBytes, CallRoute) # {} =>
        LET targets ==
                CallRoute.cc_mappings[First(Matching(CallBytes, CallRoute))]
                   .targets
        IN  \A k \in 1..Len(targets) :
               \A c \in 1..Len(targets[k].channels) :
                  LET out == Returned[Position(targets, k, c)]
                  IN  /\ Len(out) = 3
                      /\ out[1] \in 176..191
                      /\ out[1] = 176 + ClampedChannel(targets[k].channels[c])
\* C29: should_route is true for a packet without a channel (empty, first
\* byte below 0x80 or from 0xF0 up) under every filter; for a status
\* 0x80..0xEF, with c the low nibble of the status, it is true under All,
\* (c in S) under Only(S) and (c not in S) under Except(S)
HasChannel(b) == b # <<>> /\ b[1] \in 128..239
Chans(f) == {f.chans[i] : i \in 1..Len(f.chans)}
C29_ShouldRoute ==
    last.step = "should_route" =>
        LET f == CallRoute.channels
            c == CallBytes[1] % 16
        IN  /\ ~HasChannel(CallBytes) => Returned = <<TRUE>>
            /\ HasChannel(CallBytes) =>
                  /\ f.kind = "All" => Returned = <<TRUE>>
                  /\ f.kind = "Only" => Returned = <<c \in Chans(f)>>
                  /\ f.kind = "Except" => Returned = <<c \notin Chans(f)>>

\* a packet on channel 5 stopped by Except([5, 0])
C29_Witness ==
    /\ last.step = "should_route"
    /\ HasChannel(CallBytes)
    /\ CallBytes[1] % 16 = 5
    /\ CallRoute.channels.kind = "Except"
    /\ Returned = <<FALSE>>

\* a packet of status 0xF0 passing Only([]), which lets no channel through
C29_NoChannelWitness ==
    /\ last.step = "should_route"
    /\ CallBytes = <<240, 1, 2>>
    /\ CallRoute.channels = FilterOnly(<<>>)
    /\ Returned = <<TRUE>>
(***************************************************************************)
(* midi/clock.rs on its own: one ClockGenerator and the calls of its       *)
(* methods in any order, should_tick at any of the distances ClockElapsed  *)
(* from the latest reading of the time.  The argument of a step records    *)
(* the history of the calls: d, the time since the latest reading; trail,  *)
(* the two steps before; run, the should_tick calls in a row that returned *)
(* true at this instant; window, None until the first tick after the       *)
(* clock was last started, continued or retimed, and then the time t       *)
(* since that tick, the ticks k counted after it, and paced, whether       *)
(* every call since came at most one pulse interval after the call before. *)
(***************************************************************************)
MaxClockTime == 70

ClockBpms == {20, 120, 300}

ClockElapsed == {0, 1, 2, 3, 5, 6, 10, 11, 30, 31, 61}

ClockHistory(d, tick, counted) ==
    LET h == last.arg[1]
        dt == clock_interval(clock)
    IN  [d |-> d,
         trail |-> <<h.trail[2], last.step>>,
         run |-> IF ~tick THEN 0
                 ELSE IF d = 0 /\ last.step = "should_tick" THEN h.run + 1
                 ELSE 1,
         window |->
             IF ~counted THEN None
             ELSE IF h.window = None
             THEN (IF tick THEN Some([t |-> 0, k |-> 0, paced |-> TRUE])
                   ELSE None)
             ELSE Some([t |-> h.window[1].t + d,
                        k |-> h.window[1].k + (IF tick THEN 1 ELSE 0),
                        paced |-> h.window[1].paced /\ d <= dt])]

\* ClockGenerator::new(bpm), no call made yet
InitClock ==
    /\ pc = "clock"
    /\ clock \in {ClockGenerator_new(x) : x \in ClockBpms}
    /\ last = Step("new", Some([d |-> 0, trail |-> <<"", "">>, run |-> 0,
                                window |-> None]), None, <<>>, <<>>)
    /\ routes = <<>>
    /\ input_connections = {}
    /\ output_connections = {}
    /\ midi_q = <<>>
    /\ cmd_q = <<>>
    /\ event_q = <<>>
    /\ error_q = <<>>
    /\ cur = None
    /\ cmd = None
    /\ n_cmds = 0
    /\ n_pkts = 0
    /\ dequeued = None
    /\ start_pending = FALSE
    /\ set_bpm_run = <<>>
    /\ halted = FALSE
    /\ after_empty = FALSE
    /\ synced = None
    /\ sync_call = None
    /\ announced = {}
    /\ n_ports_changed = 0
    /\ n_refreshed = 0
    /\ stale = {}
    /\ app_routes = <<>>
    /\ get_ports_call = None

clock_rest ==
    <<pc, routes, input_connections, output_connections, midi_q, cmd_q,
      event_q, error_q, cur, cmd, n_cmds, n_pkts, dequeued, start_pending,
      set_bpm_run, halted, after_empty, synced, sync_call, announced,
      n_ports_changed, n_refreshed, stale, front_end>>

\* clock.start()
ClockStart ==
    /\ pc = "clock"
    /\ clock' = start(clock)
    /\ last' = Step("start", Some(ClockHistory(0, FALSE, FALSE)), Some(clock),
                    <<>>, <<>>)
    /\ UNCHANGED clock_rest

\* clock.continue_playback()
ClockContinue ==
    /\ pc = "clock"
    /\ clock' = continue_playback(clock)
    /\ last' = Step("continue_playback", Some(ClockHistory(0, FALSE, FALSE)),
                    Some(clock), <<>>, <<>>)
    /\ UNCHANGED clock_rest

\* clock.stop()
ClockStop ==
    /\ pc = "clock"
    /\ clock' = stop(clock)
    /\ last' = Step("stop", Some(ClockHistory(0, FALSE, FALSE)), Some(clock),
                    <<>>, <<>>)
    /\ UNCHANGED clock_rest

\* clock.set_bpm(x)
ClockSetBpm(x) ==
    /\ pc = "clock"
    /\ clock' = set_bpm(clock, x)
    /\ last' = Step("set_bpm", Some(ClockHistory(0, FALSE, FALSE)),
                    Some(clock), <<>>, <<>>)
    /\ UNCHANGED clock_rest

\* clock.should_tick(), d after the latest reading of the time
ClockShouldTick(d) ==
    /\ pc = "clock"
    /\ \A i \in DOMAIN last.arg[1].window :
          last.arg[1].window[i].t + d <= MaxClockTime
    /\ clock' = should_tick(clock, d).clock
    /\ last' = Step("should_tick",
                    Some(ClockHistory(d, should_tick(clock, d).tick,
                                      clock.running)),
                    Some(clock), <<should_tick(clock, d).tick>>, <<>>)
    /\ UNCHANGED clock_rest

NextClock ==
    \/ ClockStart
    \/ ClockContinue
    \/ ClockStop
    \/ \E x \in ClockBpms : ClockSetBpm(x)
    \/ \E d \in ClockElapsed : ClockShouldTick(d)

SpecClock == InitClock /\ [][NextClock]_vars

\* the clock before the latest call, what the call returned, the history
ClockBefore == last.before[1]
Ticked == last.sent[1]
History == last.arg[1]
\* now - last_tick at the latest should_tick, last_tick as it was before
SinceLastTick == ClockBefore.last_tick[1] + History.d
Interval == clock_interval(ClockBefore)

\* C31: start sets running and clears last_tick, so that the next
\* should_tick returns true at once; continue_playback sets running and
\* leaves last_tick as it was, so that after stop and continue_playback a
\* should_tick less than one interval after the kept last_tick returns
\* false; stop only clears running
C31_StartContinueStop ==
    /\ last.step = "start" =>
          /\ clock = [bpm |-> ClockBefore.bpm, running |-> TRUE,
                      last_tick |-> None]
          /\ \A d \in ClockElapsed : should_tick(clock, d).tick
    /\ last.step = "should_tick" /\ History.trail[2] = "start" => Ticked
    /\ last.step = "continue_playback" =>
          clock = [bpm |-> ClockBefore.bpm, running |-> TRUE,
                   last_tick |-> ClockBefore.last_tick]
    /\ /\ last.step = "should_tick"
       /\ History.trail = <<"stop", "continue_playback">>
       /\ ClockBefore.last_tick # None
       => (SinceLastTick < Interval => ~Ticked)
    /\ last.step = "stop" =>
          clock = [bpm |-> ClockBefore.bpm, running |-> FALSE,
                   last_tick |-> ClockBefore.last_tick]

\* C31 witness: stop, continue_playback, then a should_tick less than one
\* interval after the last tick, which returned false
C31_Witness ==
    /\ last.step = "should_tick"
    /\ History.trail = <<"stop", "continue_playback">>
    /\ ClockBefore.last_tick # None
    /\ History.d > 0
    /\ ~Ticked

\* the first should_tick after a start
C31_StartWitness ==
    /\ last.step = "should_tick"
    /\ History.trail[2] = "start"
    /\ Ticked

\* the window of the history: its length, the ticks counted in it, the
\* pulse interval
Window == History.window[1]
WholePulses == Window.t \div clock_interval(clock)

\* C32 as stated: whatever the times of the should_tick calls, over a
\* window of N intervals that begins at a tick the number of calls that
\* returned true is N - 1, N or N + 1
C32_TickCountAnySchedule ==
    /\ last.step = "should_tick"
    /\ History.window # None
    /\ Window.t % clock_interval(clock) = 0
    => Window.k \in (WholePulses - 1)..(WholePulses + 1)

\* C32: when no should_tick call comes later than one pulse interval after
\* the call before, over a window of N intervals that begins at a tick the
\* number of calls that returned true is N - 1, N or N + 1
C32_TickCountWhenPaced ==
    /\ last.step = "should_tick"
    /\ History.window # None
    /\ Window.paced
    /\ Window.t % clock_interval(clock) = 0
    => Window.k \in (WholePulses - 1)..(WholePulses + 1)

\* C32 witness: at 120 BPM a window of twelve intervals with twelve ticks,
\* the calls at uneven distances
C32_Witness ==
    /\ last.step = "should_tick"
    /\ History.window # None
    /\ Window.paced
    /\ clock_interval(clock) = 5
    /\ Window.t = 60
    /\ Window.k = 12
    /\ History.d = 3

\* C33: should_tick on a running clock returns false and leaves last_tick
\* alone when now - last_tick < dt; otherwise it returns true and moves
\* last_tick forward by dt when that leaves it at most dt behind now, and
\* to now when not; with last_tick unset it returns true and sets
\* last_tick to now; after the first tick that follows start it returns
\* false until dt has passed
C33_ShouldTick ==
    /\ last.step = "should_tick" /\ ClockBefore.running =>
          /\ clock.bpm = ClockBefore.bpm
          /\ clock.running
          /\ clock.last_tick # None
          /\ IF ClockBefore.last_tick = None
             THEN Ticked /\ clock.last_tick[1] = 0
             ELSE IF SinceLastTick < Interval
             THEN ~Ticked /\ clock.last_tick[1] = SinceLastTick
             ELSE IF SinceLastTick - Interval <= Interval
             THEN Ticked /\ clock.last_tick[1] = SinceLastTick - Interval
             ELSE Ticked /\ clock.last_tick[1] = 0
    /\ /\ last.step = "should_tick"
       /\ History.trail = <<"start", "should_tick">>
       /\ History.d < Interval
       => ~Ticked

\* C33 witness: a tick that came late by exactly one interval, last_tick
\* moved forward by one interval
C33_Witness ==
    /\ last.step = "should_tick"
    /\ ClockBefore.running
    /\ ClockBefore.last_tick # None
    /\ SinceLastTick = 2 * Interval
    /\ Ticked
    /\ clock.last_tick = Some(Interval)

\* a tick more than two intervals late, last_tick set to now
C33_ResyncWitness ==
    /\ last.step = "should_tick"
    /\ ClockBefore.running
    /\ ClockBefore.last_tick # None
    /\ SinceLastTick > 2 * Interval
    /\ Ticked
    /\ clock.last_tick = Some(0)

\* the call right after the first tick that follows start
C33_AfterFirstTickWitness ==
    /\ last.step = "should_tick"
    /\ History.trail = <<"start", "should_tick">>
    /\ History.d > 0
    /\ ~Ticked

\* C34: after a should_tick that returned true last_tick is at most one
\* interval behind now, so that of the should_tick calls made at one
\* instant at most two in a row return true, however long the stall before
C34_NoBurst ==
    last.step = "should_tick" =>
        /\ Ticked => clock.last_tick[1] <= clock_interval(clock)
        /\ History.run <= 2
        /\ Ticked /\ History.d > 2 * clock_interval(clock) =>
              ~should_tick(clock, 0).tick

\* C34 witness: two should_tick calls in a row at one instant that both
\* returned true
C34_Witness ==
    /\ last.step = "should_tick"
    /\ History.run = 2

\* a tick after a stall of more than thirty intervals at 300 BPM
C34_StallWitness ==
    /\ last.step = "should_tick"
    /\ ClockBefore.running
    /\ ClockBefore.last_tick # None
    /\ Interval = 2
    /\ History.d = 61
    /\ Ticked

\* C35: in every reachable state the open inputs are sources of enabled
\* routes and the open outputs are destinations of enabled routes of the
\* engine's current route set
C35_OpenSubsetOfNeeded ==
    /\ input_connections \subseteq EnabledSources(routes)
    /\ output_connections \subseteq EnabledDestinations(routes)

\* the same in the states where no sync_with_routes is stuck in a send
\* to the full error channel
C35_OpenSubsetUnlessBlocked ==
    pc # "blocked" => C35_OpenSubsetOfNeeded

\* C36: a SetRoutes whose enabled routes still reference a port that is
\* open leaves that connection in its map and makes no attempt to open the
\* port (the port stays open and reports no error even when an attempt to
\* open it would fail), and sync_with_routes applied once more with the
\* same routes and the same host leaves both open sets as they are
C36_KeepsLiveConnections ==
    /\ pc = "exec" /\ cmd # None /\ cmd[1].type = "SetRoutes" =>
          LET needed_in == needed_input_ports(cmd[1].routes)
              needed_out == needed_output_ports(cmd[1].routes)
              kept == (input_connections \cap needed_in)
                          \cup (output_connections \cap needed_out)
          IN  \A in_order \in Orders(needed_in),
                 out_order \in Orders(needed_out),
                 failed_in \in SUBSET needed_in,
                 failed_out \in SUBSET needed_out :
                  LET r == sync_with_routes(input_connections,
                                            output_connections, error_q,
                                            in_order, out_order,
                                            failed_in, failed_out)
                  IN  /\ input_connections \cap needed_in \subseteq r.inputs
                      /\ output_connections \cap needed_out
                            \subseteq r.outputs
                      /\ \A k \in (Len(error_q) + 1)..Len(r.errs) :
                            r.errs[k].port_name \notin kept
    /\ last.step = "SetRoutes" /\ pc = "loop" =>
          \A in_order \in Orders(needed_input_ports(routes)),
             out_order \in Orders(needed_output_ports(routes)) :
              LET r == sync_with_routes(input_connections,
                                        output_connections, <<>>,
                                        in_order, out_order,
                                        LastCmd.failed_in,
                                        LastCmd.failed_out)
              IN  /\ r.inputs = input_connections
                  /\ r.outputs = output_connections
                  /\ ~r.blocked

\* C36 witness: a SetRoutes was processed and left in its map, still open,
\* a connection opened by an earlier SetRoutes (its device was unplugged
\* and plugged back in between), next to a port it opened itself
C36_Witness ==
    /\ last.step = "SetRoutes"
    /\ pc = "loop"
    /\ "A" \in stale \cap input_connections
    /\ "C" \in output_connections \ stale
    /\ "B" \in output_connections

\* C37: a RefreshPorts leaves the routes and the clock as they are and
\* closes every connection; nothing but a SetRoutes opens a connection
\* again, so that from then until a SetRoutes is processed no port
\* delivers a packet and no send_to or send_to_all reaches an output
C37_RefreshLeavesAllClosed ==
    [][/\ last'.step \in {"RefreshPorts", "RefreshPublish"} =>
             /\ routes' = routes
             /\ clock' = clock
             /\ input_connections' = {}
             /\ output_connections' = {}
       /\ /\ input_connections = {}
          /\ output_connections = {}
          /\ last'.step # "SetRoutes"
          => /\ input_connections' = {}
             /\ output_connections' = {}
             /\ n_pkts' = n_pkts
             /\ \A k \in 1..Len(last'.sent) : ~last'.sent[k].ok
      ]_vars

\* C37 witness: a RefreshPorts was processed while enabled routes were
\* present and the clock was running
C37_Witness ==
    /\ last.step = "RefreshPublish"
    /\ EnabledSources(routes) # {}
    /\ clock.running
    /\ clock.last_tick # None
    /\ input_connections = {}
    /\ output_connections = {}

\* a packet that was queued before the RefreshPorts, dispatched after it
\* to the destination of an enabled route, which is closed
C37_ClosedDestinationWitness ==
    /\ n_refreshed = 1
    /\ last.step = "RoutePacket"
    /\ EnabledSources(routes) # {}
    /\ output_connections = {}
    /\ last.sent # <<>>
    /\ \A k \in 1..Len(last.sent) : ~last.sent[k].ok

(***************************************************************************)
(* commands.rs: the two monitor threads.  start_midi_monitor and           *)
(* start_clock_monitor each take engine.event_receiver(), a clone of the   *)
(* one receiver of the event channel, and loop on event_rx.recv(): an      *)
(* event of the channel is taken by one of the two.                        *)
(***************************************************************************)
\* the thread of start_midi_monitor: a MidiActivity goes to the front end,
\* any other event is dropped
MidiMonitor ==
    /\ event_q # <<>>
    /\ event_q' = Tail(event_q)
    /\ last' = Step("midi_monitor", Some(Head(event_q)), None,
                    IF Head(event_q).type = "MidiActivity"
                    THEN <<Head(event_q)>> ELSE <<>>,
                    <<>>)
    /\ UNCHANGED <<pc, routes, clock, ports, midi_q, cmd_q, error_q, cur,
                   cmd, counters, hist, refresh_sync, n_ports_changed, stale, front_end>>

\* the thread of start_clock_monitor: a ClockStateChanged goes to the front
\* end, any other event is dropped
ClockMonitor ==
    /\ event_q # <<>>
    /\ event_q' = Tail(event_q)
    /\ last' = Step("clock_monitor", Some(Head(event_q)), None,
                    IF Head(event_q).type = "ClockStateChanged"
                    THEN <<Head(event_q)>> ELSE <<>>,
                    <<>>)
    /\ UNCHANGED <<pc, routes, clock, ports, midi_q, cmd_q, error_q, cur,
                   cmd, counters, hist, refresh_sync, n_ports_changed, stale, front_end>>

MonitorCommands ==
    {[type |-> "SetRoutes", routes |-> <<RoutePlain>>],
     [type |-> "SetBpm", bpm |-> 90]}

NextMonitor ==
    \/ \E port \in OsInputs, bytes \in Packets : Callback(port, bytes)
    \/ \E c \in MonitorCommands : Submit(c)
    \/ MidiMonitor
    \/ ClockMonitor
    \/ DrainError
    \/ \E d \in Elapsed, order \in Orders(output_connections) :
          ClockTick(d, order)
    \/ MidiRecv
    \/ \E order \in Orders(output_connections) : Transport(order)
    \/ Activity
    \/ RoutePacket
    \/ CmdTimeout
    \/ CmdRecv
    \/ ExecSetRoutes
    \/ ExecSetBpm

SpecMonitor == Init /\ [][NextMonitor]_vars

\* C38: with both monitors running, every ClockStateChanged the engine
\* publishes reaches the clock monitor and every MidiActivity reaches the
\* MIDI monitor: no monitor takes from the channel an event of the kind the
\* other one forwards
C38_EveryEventReachesItsMonitor ==
    /\ last.step = "midi_monitor" =>
          last.arg[1].type # "ClockStateChanged"
    /\ last.step = "clock_monitor" =>
          last.arg[1].type # "MidiActivity"

(***************************************************************************)
(* commands.rs: the Tauri commands that change AppState.routes, and        *)
(* get_ports.  Each of the former holds the lock of AppState.routes while  *)
(* it changes the list and sends SetRoutes with a clone of it; get_ports   *)
(* sends RefreshPorts, sleeps, clones the list under the lock, releases    *)
(* the lock and then sends SetRoutes with the clone.  A route is named by  *)
(* its position in the list instead of its id.                             *)
(***************************************************************************)
MaxFrontEndCmds == 4
MaxRoutes == 2

\* { lock; change; state.engine.set_routes(routes.clone())?; }
set_routes_locked(rs) ==
    /\ pc # "done"
    /\ n_cmds < MaxFrontEndCmds
    /\ Len(cmd_q) < CmdCap
    /\ app_routes' = rs
    /\ cmd_q' = Append(cmd_q, [type |-> "SetRoutes", routes |-> rs])
    /\ n_cmds' = n_cmds + 1
    /\ last' = EnvStep
    /\ UNCHANGED <<pc, routes, clock, ports, midi_q, event_q, error_q, cur,
                   cmd, n_pkts, hist, refresh_sync, n_ports_changed, stale,
                   get_ports_call>>

\* routes.push(Route::new(source, destination))
add_route(source_name, dest_name) ==
    /\ Len(app_routes) < MaxRoutes
    /\ set_routes_locked(Append(app_routes,
           Route(source_name, dest_name, TRUE, FilterAll, TRUE, <<>>)))

\* routes.retain(|r| r.id != uuid)
remove_route(i) ==
    set_routes_locked(SubSeq(app_routes, 1, i - 1)
                        \o SubSeq(app_routes, i + 1, Len(app_routes)))

\* route.enabled = !route.enabled
toggle_route(i) ==
    set_routes_locked([app_routes EXCEPT ![i].enabled = ~app_routes[i].enabled])

\* route.channels = filter
set_route_channels(i, filter) ==
    set_routes_locked([app_routes EXCEPT ![i].channels = filter])

\* route.cc_passthrough = cc_passthrough; route.cc_mappings = cc_mappings
set_route_cc_mappings(i, cc_passthrough, cc_mappings) ==
    set_routes_locked([app_routes EXCEPT ![i].cc_passthrough = cc_passthrough,
                                        ![i].cc_mappings = cc_mappings])

\* *routes = p.routes.clone()
load_preset(preset_routes) ==
    set_routes_locked(preset_routes)

\* get_ports: state.engine.refresh_ports()?, then the sleep of 150 ms and
\* the two port lists
get_ports_refresh ==
    /\ pc # "done"
    /\ get_ports_call = None
    /\ n_cmds < MaxFrontEndCmds
    /\ Len(cmd_q) < CmdCap
    /\ cmd_q' = Append(cmd_q, [type |-> "RefreshPorts", done_tx |-> None])
    /\ n_cmds' = n_cmds + 1
    /\ get_ports_call' = Some(None)
    /\ last' = EnvStep
    /\ UNCHANGED <<pc, routes, clock, ports, midi_q, event_q, error_q, cur,
                   cmd, n_pkts, hist, refresh_sync, n_ports_changed, stale,
                   app_routes>>

\* let routes = state.routes.lock().unwrap().clone(): the lock is released
\* at the end of the statement
get_ports_clone ==
    /\ \E i \in DOMAIN get_ports_call : get_ports_call[i] = None
    /\ get_ports_call' = Some(Some(app_routes))
    /\ last' = EnvStep
    /\ UNCHANGED <<pc, routes, clock, ports, midi_q, cmd_q, event_q, error_q,
                   cur, cmd, counters, hist, refresh_sync, n_ports_changed,
                   stale, app_routes>>

\* if !routes.is_empty() { state.engine.set_routes(routes)?; }
get_ports_set_routes ==
    /\ \E i \in DOMAIN get_ports_call :
          \E j \in DOMAIN get_ports_call[i] :
              IF get_ports_call[i][j] = <<>>
              THEN UNCHANGED <<cmd_q, n_cmds>>
              ELSE /\ pc # "done"
                   /\ n_cmds < MaxFrontEndCmds
                   /\ Len(cmd_q) < CmdCap
                   /\ cmd_q' = Append(cmd_q,
                                      [type |-> "SetRoutes",
                                       routes |-> get_ports_call[i][j]])
                   /\ n_cmds' = n_cmds + 1
    /\ get_ports_call' = None
    /\ last' = EnvStep
    /\ UNCHANGED <<pc, routes, clock, ports, midi_q, event_q, error_q, cur,
                   cmd, n_pkts, hist, refresh_sync, n_ports_changed, stale,
                   app_routes>>

NextFrontEnd ==
    \/ add_route("A", "B")
    \/ \E i \in DOMAIN app_routes : remove_route(i)
    \/ \E i \in DOMAIN app_routes : toggle_route(i)
    \/ \E i \in DOMAIN app_routes : set_route_channels(i, FilterOnly(<<0>>))
    \/ \E i \in DOMAIN app_routes :
          set_route_cc_mappings(i, FALSE,
                                <<CcMapping(1, <<CcTarget(74, <<1>>)>>)>>)
    \/ load_preset(<<RouteExcept>>)
    \/ get_ports_refresh
    \/ get_ports_clone
    \/ get_ports_set_routes
    \/ ConsumeEvent
    \/ DrainError
    \/ \E d \in Elapsed, order \in Orders(output_connections) :
          ClockTick(d, order)
    \/ CmdTimeout
    \/ CmdRecv
    \/ ExecRefreshPorts
    \/ RefreshPublish
    \/ ExecSetRoutes

SpecFrontEnd == Init /\ [][NextFrontEnd]_vars

\* C39: once every engine command the front end has submitted is processed
\* and no command of the front end is in progress, the engine's routes are
\* AppState.routes
C39_RoutesConverge ==
    /\ cmd_q = <<>>
    /\ cmd = None
    /\ pc \notin {"exec", "refresh", "blocked"}
    /\ get_ports_call = None
    => routes = app_routes

=============================================================================
